---- MODULE Spec2Model ----
(***************************************************************************)
(* Model of the camera-driven Live2D viewer                                *)
(* (next-app/app/move-display/Live2DCameraViewer.tsx): the per-frame face  *)
(* to parameter pipeline of updateLive2DParameters, the model switch of    *)
(* loadModel, and the asynchronous initialisation and cleanup of the setup *)
(* effect.                                                                 *)
(*                                                                         *)
(* Numbers are exact rationals <<n, d>> (d > 0, lowest terms): the model   *)
(* follows the real-number reading of the JavaScript arithmetic; the       *)
(* rounding of IEEE doubles is not modelled.                               *)
(***************************************************************************)
EXTENDS Integers, Sequences, FiniteSets, TLC

\* ------------------------------------------------------------ bounds
\* Detection callbacks delivered in one behaviour of Spec.
MaxFrames == 3
\* Model selections made through the switcher in one behaviour of Spec.
MaxSelections == 1
\* Detection callbacks delivered in one behaviour of SpecSteady.
MaxSteadyFrames == 4
\* Camera frames submitted in one behaviour of SpecLife.
MaxLifeFrames == 2
\* Detection callbacks delivered in one behaviour of SpecFaces.
MaxFaceFrames == 2
\* Model selections made in one behaviour of SpecSwitch.
MaxSwitches == 2
\* Half-units to either side of a clamp bound that SpecClamp tries.
ClampSpread == 3

\* ------------------------------------------------------------ state
VARIABLES
    \* the frame driver (closure of init, lines 236-264)
    Kalidokit,        \* the solver module of line 236: "loaded" or NULL
    smoothed,         \* the accumulators smoothedAngleX .. smoothedHeadY
    debugFrameCount,  \* callbacks run so far (line 264)
    results,          \* the detection result of the last callback
    outcome,          \* where the last callback left
    calls,            \* the setParameter calls of the last callback
    \* the puppet
    modelRef,         \* modelRef.current: NULL or the loaded puppet
    paramTable,       \* the parameter values of the puppet in modelRef
    puppets,          \* the puppets created and not destroyed
    loading,          \* the Live2DModel.from promises in flight
    selections,       \* model selections made through the switcher
    selectedModelPath, \* the selected path (state of line 45)
    error,            \* the error state of line 35
    \* the setup effect (lines 118-555)
    pc,               \* where init stands
    cleanedUp,        \* the cleanup of line 523 has run
    appRef,           \* appRef.current
    app,              \* the PIXI application: "none", "live", "destroyed"
    faceMeshRef,      \* faceMeshRef.current
    faceMesh,         \* the detector: "none", "open", "closed"
    cameraRef,        \* cameraRef.current
    camera,           \* the camera helper: "none", "started", "stopped"
    stream,           \* the media stream's tracks: "none", "live", "stopped"
    videoSrcObject,   \* the video element's srcObject holds the stream
    videoAttached,    \* videoRef.current is the video element
    resizeListener,   \* handleResize is registered on window
    sent,             \* camera frames submitted with faceMesh.send
    pending,          \* submitted frames whose result is not yet delivered
    \* history of the frames delivered (not read by the program)
    runStart,         \* the accumulators before the current run of equal tracked frames
    runLen,           \* the length of that run
    idleFrames,       \* consecutive face-absent frames up to now
    poseAtLoss,       \* the parameter table before the first of them
    \* the functions followed on their own
    clampIn,          \* the bounds and the two values a clamp is applied to
    clampOut,         \* what the clamp returned for them
    sizeViewer,       \* the viewer whose waitForParentSize is followed
    attempts,         \* attempts of waitForParentSize (line 135)
    sizeResolved,     \* the size the promise resolved with
    parent,           \* what the latest check measured (lines 139-142)
    rawIn,            \* a landmark set handed to the fallback's formulas
    rawOut,           \* the raw signals computed from it (lines 386-423)
    \* the runs of the setup effect on one mounted viewer
    effectActive,     \* a run has returned its cleanup and React has not called it yet
    effectRuns,       \* how often React has run the effect
    runs,             \* the position of every init() started, oldest first
    canvasApps,       \* PIXI applications constructed on the canvas and not destroyed
    \* the model catalog route
    disk,             \* the server's file system: what statSync finds at each path
    response          \* what GET returned

frameVars == <<smoothed, debugFrameCount, results, outcome, calls, paramTable>>
puppetVars == <<modelRef, puppets, loading, selections, selectedModelPath>>
effectVars == <<pc, cleanedUp, appRef, app, faceMeshRef, faceMesh, cameraRef, camera,
                stream, videoSrcObject, videoAttached, resizeListener>>
feedVars == <<sent, pending>>
historyVars == <<runStart, runLen, idleFrames, poseAtLoss>>
clampVars == <<clampIn, clampOut>>
sizeVars == <<sizeViewer, attempts, sizeResolved, parent>>
rawVars == <<rawIn, rawOut>>
mountVars == <<effectActive, effectRuns, runs, canvasApps>>
catalogVars == <<disk, response>>
calcVars == <<clampVars, sizeVars, rawVars, mountVars, catalogVars>>

vars == <<Kalidokit, frameVars, puppetVars, error, effectVars, feedVars, historyVars, calcVars>>

\* ------------------------------------------------------------ numbers
NULL == "null"

\* The re-runs of the setup effect are followed in SpecMount only; elsewhere
\* the effect runs once and these variables stay as they are here.
NoReRun == effectActive = FALSE /\ effectRuns = 0 /\ runs = <<>> /\ canvasApps = 0

\* The catalog route is followed in SpecCatalog only.
NoRequest == disk = <<>> /\ response = <<>>

RECURSIVE GCD(_, _)
GCD(a, b) == IF b = 0 THEN a ELSE GCD(b, a % b)

IAbs(n) == IF n < 0 THEN -n ELSE n

\* The number n/d (d > 0) in lowest terms.
Num(n, d) == LET g == GCD(IAbs(n), d) IN <<n \div g, d \div g>>

Zero == <<0, 1>>
Whole(n) == <<n, 1>>

\* The arithmetic on numbers in lowest terms.  Each operation evaluates its
\* operands once (they are bound as values) before it combines them.
Sum(p, q) ==
    LET l == (p[2] \div GCD(p[2], q[2])) * q[2]
    IN Num(p[1] * (l \div p[2]) + q[1] * (l \div q[2]), l)

Product(p, q) ==
    LET g1 == GCD(IAbs(p[1]), q[2])
        g2 == GCD(IAbs(q[1]), p[2])
    IN Num((p[1] \div g1) * (q[1] \div g2), (p[2] \div g2) * (q[2] \div g1))

Plus(p, q) == CHOOSE r \in {Sum(a, b) : a \in {p}, b \in {q}} : TRUE
Minus(p, q) == CHOOSE r \in {Sum(a, <<-b[1], b[2]>>) : a \in {p}, b \in {q}} : TRUE
Times(p, q) == CHOOSE r \in {Product(a, b) : a \in {p}, b \in {q}} : TRUE
Half(p) == Times(p, <<1, 2>>)

Leq(p, q) ==
    \E a \in {p}, b \in {q} : \E g \in {GCD(a[2], b[2])} :
        a[1] * (b[2] \div g) <= b[1] * (a[2] \div g)
Less(p, q) ==
    \E a \in {p}, b \in {q} : \E g \in {GCD(a[2], b[2])} :
        a[1] * (b[2] \div g) < b[1] * (a[2] \div g)

\* Math.abs, Math.max, Math.min
MathAbs(p) == CHOOSE r \in {<<IAbs(a[1]), a[2]>> : a \in {p}} : TRUE
MathMax(p, q) == CHOOSE r \in {IF Leq(a, b) THEN b ELSE a : a \in {p}, b \in {q}} : TRUE
MathMin(p, q) == CHOOSE r \in {IF Leq(a, b) THEN a ELSE b : a \in {p}, b \in {q}} : TRUE

\* A clamp that forgets the upper bound.
ClampLowOnly(lo, hi, x) == MathMax(Whole(lo), x)

\* Math.max(lo, Math.min(hi, x)) with whole bounds
Clamp(lo, hi, x) == MathMax(Whole(lo), MathMin(Whole(hi), x))

\* ------------------------------------------------------------ smoothing
\* A smoothing factor of one half.
SMOOTHING_FACTOR_Half == <<1, 2>>

SMOOTHING_FACTOR == <<3, 10>>

\* The weights of the old and the new value exchanged.
SmoothSwapped(smoothedValue, raw) ==
    CHOOSE r \in {Plus(Times(s, <<3, 10>>), Times(v, <<7, 10>>)) :
                    s \in {smoothedValue}, v \in {raw}} : TRUE

\* smoothed += (raw - smoothed) * SMOOTHING_FACTOR
Smooth(smoothedValue, raw) ==
    CHOOSE r \in {Plus(s, Times(Minus(v, s), SMOOTHING_FACTOR)) :
                    s \in {smoothedValue}, v \in {raw}} : TRUE

\* The thirteen accumulators smoothedAngleX .. smoothedHeadY, by suffix.
Channels ==
    {"AngleX", "AngleY", "AngleZ", "BodyAngleX", "BodyAngleY", "BodyAngleZ",
     "MouthOpen", "LeftEyeOpen", "RightEyeOpen", "EyeX", "EyeY", "HeadX", "HeadY"}

SmoothedInit == [c \in Channels |-> Zero]

\* ------------------------------------------------------------ parameters
ParamIds ==
    {"ParamAngleX", "ParamAngleY", "ParamAngleZ",
     "ParamBodyAngleX", "ParamBodyAngleY", "ParamBodyAngleZ",
     "ParamEyeLOpen", "ParamEyeROpen", "ParamEyeBallX", "ParamEyeBallY",
     "ParamMouthOpenY", "ParamMouthForm", "ParamBrowLY", "ParamBrowRY"}

\* The position of each id in the loaded model's parameter table.
ParamOrder ==
    <<"ParamAngleX", "ParamAngleY", "ParamAngleZ",
      "ParamBodyAngleX", "ParamBodyAngleY", "ParamBodyAngleZ",
      "ParamEyeLOpen", "ParamEyeROpen", "ParamEyeBallX", "ParamEyeBallY",
      "ParamMouthOpenY", "ParamMouthForm", "ParamBrowLY", "ParamBrowRY">>

\* ------------------------------------------------------------ puppet models
\* The puppets a model path can load: different models expose different
\* parameter subsets, and an engine call may raise for some ids.
Models == {"full", "partial", "flaky", "nocore", "nointernal"}

\* model.internalModel / internalModel.coreModel
HasInternalModel(m) == m # "nointernal"
HasCoreModel(m) == m \notin {"nointernal", "nocore"}

DefinedParams(m) ==
    IF m = "partial"
        THEN ParamIds \ {"ParamAngleX", "ParamAngleZ", "ParamBodyAngleX", "ParamEyeLOpen",
                         "ParamEyeBallY", "ParamMouthForm", "ParamBrowRY"}
        ELSE ParamIds

\* Ids for which coreModel.getParameterIndex / setParameterValueById raises.
LookupFaults(m) == IF m = "flaky" THEN {"ParamAngleY", "ParamBodyAngleX", "ParamEyeBallX"} ELSE {}
WriteFaults(m) == IF m = "flaky" THEN {"ParamAngleX", "ParamMouthOpenY", "ParamEyeLOpen"} ELSE {}

\* coreModel.getParameterIndex(paramId): the index (-1 when the model does
\* not define the id), or an exception.
getParameterIndex(m, paramId) ==
    IF paramId \in LookupFaults(m) THEN [raised |-> TRUE, index |-> -1]
    ELSE IF paramId \in DefinedParams(m)
        THEN [raised |-> FALSE,
              index |-> (CHOOSE i \in 1..Len(ParamOrder) : ParamOrder[i] = paramId) - 1]
        ELSE [raised |-> FALSE, index |-> -1]

\* coreModel.setParameterValueById(paramId, value): the table after the write,
\* or an exception.
setParameterValueById(m, table, paramId, value) ==
    IF paramId \in WriteFaults(m) THEN [raised |-> TRUE, table |-> table]
    ELSE [raised |-> FALSE, table |-> [table EXCEPT ![paramId] = value]]

\* The parameter table of a freshly loaded model.
TableInit == [p \in ParamIds |-> Zero]

\* A setParameter that writes without looking at the index.
setParameterUnchecked(m, table, paramId, value) ==
    IF ~HasCoreModel(m) THEN [table |-> table, raised |-> FALSE]
    ELSE LET paramIndex == getParameterIndex(m, paramId) IN
         IF paramIndex.raised THEN [table |-> table, raised |-> FALSE]
         ELSE LET written == setParameterValueById(m, table, paramId, value) IN
              IF written.raised THEN [table |-> table, raised |-> FALSE]
              ELSE [table |-> written.table, raised |-> FALSE]

\* A setParameter without the try/catch.
setParameterUncaught(m, table, paramId, value) ==
    IF ~HasCoreModel(m) THEN [table |-> table, raised |-> FALSE]
    ELSE LET paramIndex == getParameterIndex(m, paramId) IN
         IF paramIndex.raised THEN [table |-> table, raised |-> TRUE]
         ELSE IF paramIndex.index >= 0
             THEN LET written == setParameterValueById(m, table, paramId, value) IN
                  IF written.raised THEN [table |-> table, raised |-> TRUE]
                  ELSE [table |-> written.table, raised |-> FALSE]
             ELSE [table |-> table, raised |-> FALSE]

\* setParameter (lines 289-301): the table after the call and whether an
\* exception leaves the function.  The try/catch swallows every exception
\* of the lookup and of the write.
setParameter(m, table, paramId, value) ==
    IF ~HasCoreModel(m) THEN [table |-> table, raised |-> FALSE]
    ELSE LET paramIndex == getParameterIndex(m, paramId) IN
         IF paramIndex.raised THEN [table |-> table, raised |-> FALSE]
         ELSE IF paramIndex.index >= 0
             THEN LET written == setParameterValueById(m, table, paramId, value) IN
                  IF written.raised THEN [table |-> table, raised |-> FALSE]
                  ELSE [table |-> written.table, raised |-> FALSE]
             ELSE [table |-> table, raised |-> FALSE]

\* One setParameter call inside the frame's try block: st carries the
\* accumulators, the table, the calls made so far and whether an exception
\* is travelling to the frame's catch.
Call(st, m, paramId, value) ==
    IF st.raised THEN st
    ELSE LET r == setParameter(m, st.table, paramId, value) IN
         [smoothed |-> st.smoothed,
          table |-> r.table,
          calls |-> Append(st.calls, <<paramId, value>>),
          raised |-> r.raised]

\* ------------------------------------------------------------ faces
\* The faces the detector can report.  A landmark set is an array of
\* `length` points; index i is present iff i < length.
Faces == {"ten", "wide", "short", "odd"}

Pt(xc, yc) == [x |-> Num(xc, 100), y |-> Num(yc, 100)]

\* Normalised image coordinates, in hundredths, of the landmarks the
\* fallback reads.
PointsTen ==
    [i \in {1, 13, 14, 33, 145, 159, 234, 263, 374, 386, 454} |->
        CASE i = 1 -> Pt(60, 50)
          [] i = 33 -> Pt(45, 45)
          [] i = 263 -> Pt(65, 45)
          [] i = 234 -> Pt(30, 50)
          [] i = 454 -> Pt(80, 45)
          [] i = 13 -> Pt(55, 40)
          [] i = 14 -> Pt(55, 42)
          [] i = 159 -> Pt(45, 44)
          [] i = 145 -> Pt(45, 46)
          [] i = 386 -> Pt(65, 44)
          [] i = 374 -> Pt(65, 45)]

PointsWide ==
    [i \in {1, 13, 14, 33, 145, 159, 234, 263, 374, 386, 454} |->
        CASE i = 1 -> Pt(0, 100)
          [] i = 33 -> Pt(100, 0)
          [] i = 263 -> Pt(100, 0)
          [] i = 234 -> Pt(90, 0)
          [] i = 454 -> Pt(100, 100)
          [] i = 13 -> Pt(50, 50)
          [] i = 14 -> Pt(50, 60)
          [] i = 159 -> Pt(100, 28)
          [] i = 145 -> Pt(100, 38)
          [] i = 386 -> Pt(100, 30)
          [] i = 374 -> Pt(100, 30)]

\* results.multiFaceLandmarks[k] for face f: "short" is cut after index 299
\* (454, 386 and 374 are missing), "odd" after index 99.  "blank" and
\* "headless" are complete sets the solver gives no result, or a result
\* without the head channel, for.
Landmarks(f) ==
    CASE f = "ten" -> [length |-> 478, point |-> PointsTen]
      [] f = "wide" -> [length |-> 478, point |-> PointsWide]
      [] f = "blank" -> [length |-> 478, point |-> PointsTen]
      [] f = "headless" -> [length |-> 478, point |-> PointsWide]
      [] f = "short" -> [length |-> 300, point |-> PointsTen]
      [] f = "odd" -> [length |-> 100, point |-> PointsWide]

Has(landmarks, i) == i < landmarks.length

\* Optional values: <<>> is undefined, <<v>> is v.
Some(v) == <<v>>
None == <<>>

\* Kalidokit.Face.solve(landmarks, ...) per face: an exception, null, or a
\* rigging result whose channels may be missing.  "odd" yields a head
\* without degrees; the pupil offsets of "wide" exceed 1 in magnitude (the
\* code puts no bound on what solve returns).
Solve(f) ==
    CASE f = "ten" ->
            [threw |-> FALSE, isNull |-> FALSE,
             head |-> Some([degrees |-> Some([x |-> Whole(10), y |-> Whole(10), z |-> Whole(10)])]),
             eye |-> Some([l |-> Whole(1), r |-> Num(1, 2)]),
             pupil |-> Some([x |-> Num(1, 4), y |-> Num(-1, 4)]),
             mouth |-> Some([y |-> Num(4, 5), x |-> Some(Num(1, 2))]),
             brow |-> Some([l |-> Num(1, 10), r |-> Num(1, 5)])]
      [] f = "wide" ->
            [threw |-> FALSE, isNull |-> FALSE,
             head |-> Some([degrees |-> Some([x |-> Whole(45), y |-> Whole(-10), z |-> Whole(5)])]),
             eye |-> Some([l |-> Zero, r |-> Whole(1)]),
             pupil |-> Some([x |-> Num(3, 2), y |-> Num(-3, 2)]),
             mouth |-> Some([y |-> Whole(1), x |-> None]),
             brow |-> None]
      [] f = "short" ->
            [threw |-> TRUE, isNull |-> FALSE,
             head |-> None, eye |-> None, pupil |-> None, mouth |-> None, brow |-> None]
      [] f = "odd" ->
            [threw |-> FALSE, isNull |-> FALSE,
             head |-> Some([degrees |-> None]),
             eye |-> Some([l |-> Whole(1), r |-> Whole(1)]),
             pupil |-> None, mouth |-> None, brow |-> None]
      [] f = "blank" ->
            [threw |-> FALSE, isNull |-> TRUE,
             head |-> None, eye |-> None, pupil |-> None, mouth |-> None, brow |-> None]
      [] f = "headless" ->
            [threw |-> FALSE, isNull |-> FALSE,
             head |-> None,
             eye |-> Some([l |-> Num(1, 5), r |-> Num(3, 5)]),
             pupil |-> Some([x |-> Num(-1, 2), y |-> Num(1, 10)]),
             mouth |-> Some([y |-> Num(3, 10), x |-> Some(Num(-1, 5))]),
             brow |-> None]

\* The detection results the detector delivers: multiFaceLandmarks missing,
\* empty, or a list of faces.
NoLandmarks == [hasLandmarks |-> FALSE, multiFaceLandmarks |-> <<>>]
DetectionResults ==
    {NoLandmarks}
    \cup {[hasLandmarks |-> TRUE, multiFaceLandmarks |-> fs] :
            fs \in {<<>>} \cup {<<f>> : f \in Faces}}

\* ------------------------------------------------------------ the frame pipeline
\* The state of one callback inside its try block: the accumulators, the
\* puppet's parameter table, the setParameter calls made so far, and
\* whether an exception is travelling to the catch of line 438.
FrameStart(smoothedNow, table) ==
    [smoothed |-> smoothedNow, table |-> table, calls |-> <<>>, raised |-> FALSE]

Throw(st) ==
    [smoothed |-> st.smoothed, table |-> st.table, calls |-> st.calls, raised |-> TRUE]

\* A run of setParameter calls <<paramId, value>> in program order.
RECURSIVE ApplyAll(_, _, _)
ApplyAll(st, m, pairs) ==
    IF pairs = <<>> THEN st
    ELSE CHOOSE r \in {ApplyAll(next, m, rest) :
                        next \in {Call(st, m, pairs[1][1], pairs[1][2])},
                        rest \in {Tail(pairs)}} : TRUE

\* Fallback calls that also drive ParamBodyAngleY from the vertical head
\* position.
FallbackApplyWithBodyY(st, m) ==
    LET s == st.smoothed IN
    ApplyAll(st, m,
        << <<"ParamBodyAngleX", Clamp(-30, 30, s["HeadX"])>>,
           <<"ParamBodyAngleY", Clamp(-30, 30, s["HeadY"])>>,
           <<"ParamAngleX", Clamp(-70, 70, s["AngleX"])>>,
           <<"ParamAngleY", Clamp(-70, 70, s["AngleY"])>>,
           <<"ParamAngleZ", Clamp(-50, 50, s["AngleZ"])>>,
           <<"ParamMouthOpenY", Clamp(0, 1, s["MouthOpen"])>>,
           <<"ParamEyeLOpen", Clamp(0, 1, s["LeftEyeOpen"])>>,
           <<"ParamEyeROpen", Clamp(0, 1, s["RightEyeOpen"])>>,
           <<"ParamEyeBallX", Clamp(-1, 1, s["EyeX"])>>,
           <<"ParamEyeBallY", Clamp(-1, 1, s["EyeY"])>> >>)

\* The fallback's setParameter calls (lines 428-436): each accumulator
\* clamped into its parameter's domain.
FallbackApply(st, m) ==
    LET s == st.smoothed IN
    ApplyAll(st, m,
        << <<"ParamBodyAngleX", Clamp(-30, 30, s["HeadX"])>>,
           <<"ParamAngleX", Clamp(-70, 70, s["AngleX"])>>,
           <<"ParamAngleY", Clamp(-70, 70, s["AngleY"])>>,
           <<"ParamAngleZ", Clamp(-50, 50, s["AngleZ"])>>,
           <<"ParamMouthOpenY", Clamp(0, 1, s["MouthOpen"])>>,
           <<"ParamEyeLOpen", Clamp(0, 1, s["LeftEyeOpen"])>>,
           <<"ParamEyeROpen", Clamp(0, 1, s["RightEyeOpen"])>>,
           <<"ParamEyeBallX", Clamp(-1, 1, s["EyeX"])>>,
           <<"ParamEyeBallY", Clamp(-1, 1, s["EyeY"])>> >>)

\* The fallback's raw signals (lines 380-423) of a landmark set.
faceCenterX(landmarks) == Half(Plus(landmarks.point[33].x, landmarks.point[263].x))
faceCenterY(landmarks) == Half(Plus(landmarks.point[33].y, landmarks.point[263].y))
headPosX(landmarks) == Times(Minus(faceCenterX(landmarks), Num(1, 2)), Whole(100))
headPosY(landmarks) == Times(Minus(faceCenterY(landmarks), Num(1, 2)), Whole(100))
rawAngleX(landmarks) == Times(Minus(landmarks.point[1].x, faceCenterX(landmarks)), Whole(200))
rawAngleY(landmarks) == Times(Minus(landmarks.point[1].y, faceCenterY(landmarks)), Whole(200))
rawAngleZ(landmarks) == Times(Minus(landmarks.point[234].y, landmarks.point[454].y), Whole(200))
\* A horizontal gaze on the scale of the yaw.
eyeLookXAsYaw(landmarks) == Times(Minus(landmarks.point[1].x, faceCenterX(landmarks)), Whole(200))
eyeLookX(landmarks) == Times(Minus(landmarks.point[1].x, faceCenterX(landmarks)), Whole(150))
eyeLookY(landmarks) == Times(Minus(landmarks.point[1].y, faceCenterY(landmarks)), Whole(150))
rawMouthOpen(landmarks) ==
    Times(MathAbs(Minus(landmarks.point[13].y, landmarks.point[14].y)), Whole(40))
rawLeftEyeOpen(landmarks) ==
    Times(MathAbs(Minus(landmarks.point[159].y, landmarks.point[145].y)), Whole(30))
rawRightEyeOpen(landmarks) ==
    Times(MathAbs(Minus(landmarks.point[386].y, landmarks.point[374].y)), Whole(30))

\* The accumulators the fallback updates, each with the raw signal folded
\* into it (lines 395-426).
FallbackChannels ==
    {"HeadX", "HeadY", "AngleX", "AngleY", "AngleZ", "EyeX", "EyeY",
     "MouthOpen", "LeftEyeOpen", "RightEyeOpen"}

FallbackRaw(landmarks, c) ==
    CASE c = "HeadX" -> headPosX(landmarks)
      [] c = "HeadY" -> headPosY(landmarks)
      [] c = "AngleX" -> rawAngleX(landmarks)
      [] c = "AngleY" -> rawAngleY(landmarks)
      [] c = "AngleZ" -> rawAngleZ(landmarks)
      [] c = "EyeX" -> eyeLookX(landmarks)
      [] c = "EyeY" -> eyeLookY(landmarks)
      [] c = "MouthOpen" -> rawMouthOpen(landmarks)
      [] c = "LeftEyeOpen" -> rawLeftEyeOpen(landmarks)
      [] c = "RightEyeOpen" -> rawRightEyeOpen(landmarks)

\* s with the accumulators cs folded with their raw signals.
Fold(s, landmarks, cs) ==
    [c \in Channels |-> IF c \in cs THEN Smooth(s[c], FallbackRaw(landmarks, c)) ELSE s[c]]

\* The accumulators the fallback has updated when it ends or raises
\* (lines 386-426, in statement order): reading a coordinate of a missing
\* landmark raises at the statement that reads it, after the updates of
\* the statements before it.
FallbackUpdated(landmarks) ==
    \* line 386: leftEye.x, rightEye.x
    IF ~(Has(landmarks, 33) /\ Has(landmarks, 263)) THEN {}
    \* line 398: noseTip.x
    ELSE IF ~Has(landmarks, 1) THEN {"HeadX", "HeadY"}
    \* line 404: leftEar.y, rightEar.y
    ELSE IF ~(Has(landmarks, 234) /\ Has(landmarks, 454))
        THEN {"HeadX", "HeadY", "AngleX", "AngleY"}
    \* line 415: upperLip.y, lowerLip.y
    ELSE IF ~(Has(landmarks, 13) /\ Has(landmarks, 14))
        THEN {"HeadX", "HeadY", "AngleX", "AngleY", "AngleZ", "EyeX", "EyeY"}
    \* lines 422-423: the eyelid points
    ELSE IF ~(Has(landmarks, 159) /\ Has(landmarks, 145)
              /\ Has(landmarks, 386) /\ Has(landmarks, 374))
        THEN {"HeadX", "HeadY", "AngleX", "AngleY", "AngleZ", "EyeX", "EyeY", "MouthOpen"}
    ELSE FallbackChannels

\* A fallback that keeps the clamped values in the accumulators.
FallbackStrategySaturating(st, m, landmarks) ==
    LET updated == FallbackUpdated(landmarks)
        folded == Fold(st.smoothed, landmarks, updated)
        kept == [folded EXCEPT !["HeadX"] = Clamp(-30, 30, @),
                               !["AngleX"] = Clamp(-70, 70, @),
                               !["AngleY"] = Clamp(-70, 70, @),
                               !["AngleZ"] = Clamp(-50, 50, @)]
        after == [smoothed |-> kept,
                  table |-> st.table, calls |-> st.calls, raised |-> st.raised]
    IN IF updated # FallbackChannels THEN Throw(after) ELSE FallbackApply(after, m)

\* The fallback branch (lines 379-437): the accumulators folded up to the
\* raising statement, and the parameters applied when none raised.
FallbackStrategy(st, m, landmarks) ==
    LET updated == FallbackUpdated(landmarks)
        after == [smoothed |-> Fold(st.smoothed, landmarks, updated),
                  table |-> st.table, calls |-> st.calls, raised |-> st.raised]
    IN IF updated # FallbackChannels THEN Throw(after) ELSE FallbackApply(after, m)

\* A head block that smooths the solver's degrees as they come and bounds
\* only the values it writes.
SolverHeadClampAfter(st, m, head) ==
    IF head.degrees = None THEN Throw(st)
    ELSE
    LET d == head.degrees[1]
        s0 == st.smoothed
        s1 == [s0 EXCEPT !["AngleX"] = Smooth(@, d.x),
                         !["AngleY"] = Smooth(@, d.y),
                         !["AngleZ"] = Smooth(@, d.z)]
        s2 == [s1 EXCEPT !["BodyAngleX"] = Smooth(@, Half(s1["AngleX"])),
                         !["BodyAngleY"] = Smooth(@, Half(s1["AngleY"])),
                         !["BodyAngleZ"] = Smooth(@, Half(s1["AngleZ"]))]
    IN ApplyAll([smoothed |-> s2, table |-> st.table, calls |-> st.calls,
                 raised |-> st.raised], m,
        << <<"ParamAngleX", Clamp(-30, 30, s1["AngleX"])>>,
           <<"ParamAngleY", Clamp(-30, 30, s1["AngleY"])>>,
           <<"ParamAngleZ", Clamp(-30, 30, s1["AngleZ"])>>,
           <<"ParamBodyAngleX", s2["BodyAngleX"]>>,
           <<"ParamBodyAngleY", s2["BodyAngleY"]>>,
           <<"ParamBodyAngleZ", s2["BodyAngleZ"]>> >>)

\* A head block whose body angles follow half the solver's degrees instead
\* of half the head accumulators.
SolverHeadBodyFromDegrees(st, m, head) ==
    IF head.degrees = None THEN Throw(st)
    ELSE
    LET d == head.degrees[1]
        s0 == st.smoothed
        s1 == [s0 EXCEPT !["AngleX"] = Smooth(@, Clamp(-30, 30, d.x)),
                         !["AngleY"] = Smooth(@, Clamp(-30, 30, d.y)),
                         !["AngleZ"] = Smooth(@, Clamp(-30, 30, d.z))]
        s2 == [s1 EXCEPT !["BodyAngleX"] = Smooth(@, Half(d.x)),
                         !["BodyAngleY"] = Smooth(@, Half(d.y)),
                         !["BodyAngleZ"] = Smooth(@, Half(d.z))]
    IN ApplyAll([smoothed |-> s2, table |-> st.table, calls |-> st.calls,
                 raised |-> st.raised], m,
        << <<"ParamAngleX", s1["AngleX"]>>,
           <<"ParamAngleY", s1["AngleY"]>>,
           <<"ParamAngleZ", s1["AngleZ"]>>,
           <<"ParamBodyAngleX", s2["BodyAngleX"]>>,
           <<"ParamBodyAngleY", s2["BodyAngleY"]>>,
           <<"ParamBodyAngleZ", s2["BodyAngleZ"]>> >>)

\* A head block that smooths the solver's degrees without the clamp of
\* lines 318-320.
SolverHeadUnclamped(st, m, head) ==
    IF head.degrees = None THEN Throw(st)
    ELSE
    LET d == head.degrees[1]
        s0 == st.smoothed
        s1 == [s0 EXCEPT !["AngleX"] = Smooth(@, d.x),
                         !["AngleY"] = Smooth(@, d.y),
                         !["AngleZ"] = Smooth(@, d.z)]
        s2 == [s1 EXCEPT !["BodyAngleX"] = Smooth(@, Half(s1["AngleX"])),
                         !["BodyAngleY"] = Smooth(@, Half(s1["AngleY"])),
                         !["BodyAngleZ"] = Smooth(@, Half(s1["AngleZ"]))]
    IN ApplyAll([smoothed |-> s2, table |-> st.table, calls |-> st.calls,
                 raised |-> st.raised], m,
        << <<"ParamAngleX", s1["AngleX"]>>,
           <<"ParamAngleY", s1["AngleY"]>>,
           <<"ParamAngleZ", s1["AngleZ"]>>,
           <<"ParamBodyAngleX", s2["BodyAngleX"]>>,
           <<"ParamBodyAngleY", s2["BodyAngleY"]>>,
           <<"ParamBodyAngleZ", s2["BodyAngleZ"]>> >>)

\* The solver's head block (lines 316-349): the degrees clamped to +-30 and
\* smoothed, the body angles smoothed toward half the smoothed head angles.
SolverHead(st, m, head) ==
    IF head.degrees = None THEN Throw(st)
    ELSE
    LET d == head.degrees[1]
        s0 == st.smoothed
        s1 == [s0 EXCEPT !["AngleX"] = Smooth(@, Clamp(-30, 30, d.x)),
                         !["AngleY"] = Smooth(@, Clamp(-30, 30, d.y)),
                         !["AngleZ"] = Smooth(@, Clamp(-30, 30, d.z))]
        s2 == [s1 EXCEPT !["BodyAngleX"] = Smooth(@, Half(s1["AngleX"])),
                         !["BodyAngleY"] = Smooth(@, Half(s1["AngleY"])),
                         !["BodyAngleZ"] = Smooth(@, Half(s1["AngleZ"]))]
    IN ApplyAll([smoothed |-> s2, table |-> st.table, calls |-> st.calls,
                 raised |-> st.raised], m,
        << <<"ParamAngleX", s1["AngleX"]>>,
           <<"ParamAngleY", s1["AngleY"]>>,
           <<"ParamAngleZ", s1["AngleZ"]>>,
           <<"ParamBodyAngleX", s2["BodyAngleX"]>>,
           <<"ParamBodyAngleY", s2["BodyAngleY"]>>,
           <<"ParamBodyAngleZ", s2["BodyAngleZ"]>> >>)

\* Expression channels that pass the solver's eye openness through the
\* accumulators of lines 253-254 before writing it.
SolverFaceSmoothed(st, m, riggedFace) ==
    LET eyeCalls ==
            IF riggedFace.eye = None THEN <<>>
            ELSE << <<"ParamEyeLOpen", Smooth(st.smoothed["LeftEyeOpen"], riggedFace.eye[1].l)>>,
                    <<"ParamEyeROpen", Smooth(st.smoothed["RightEyeOpen"], riggedFace.eye[1].r)>> >>
        pupilCalls ==
            IF riggedFace.pupil = None THEN <<>>
            ELSE << <<"ParamEyeBallX", riggedFace.pupil[1].x>>,
                    <<"ParamEyeBallY", riggedFace.pupil[1].y>> >>
        mouthCalls ==
            IF riggedFace.mouth = None THEN <<>>
            ELSE << <<"ParamMouthOpenY", riggedFace.mouth[1].y>> >>
                 \o (IF riggedFace.mouth[1].x = None THEN <<>>
                     ELSE << <<"ParamMouthForm", riggedFace.mouth[1].x[1]>> >>)
        browCalls ==
            IF riggedFace.brow = None THEN <<>>
            ELSE << <<"ParamBrowLY", riggedFace.brow[1].l>>,
                    <<"ParamBrowRY", riggedFace.brow[1].r>> >>
    IN ApplyAll(st, m, eyeCalls \o pupilCalls \o mouthCalls \o browCalls)

\* The solver's expression channels (lines 351-376), written as solved.
SolverFace(st, m, riggedFace) ==
    LET eyeCalls ==
            IF riggedFace.eye = None THEN <<>>
            ELSE << <<"ParamEyeLOpen", riggedFace.eye[1].l>>,
                    <<"ParamEyeROpen", riggedFace.eye[1].r>> >>
        pupilCalls ==
            IF riggedFace.pupil = None THEN <<>>
            ELSE << <<"ParamEyeBallX", riggedFace.pupil[1].x>>,
                    <<"ParamEyeBallY", riggedFace.pupil[1].y>> >>
        mouthCalls ==
            IF riggedFace.mouth = None THEN <<>>
            ELSE << <<"ParamMouthOpenY", riggedFace.mouth[1].y>> >>
                 \o (IF riggedFace.mouth[1].x = None THEN <<>>
                     ELSE << <<"ParamMouthForm", riggedFace.mouth[1].x[1]>> >>)
        browCalls ==
            IF riggedFace.brow = None THEN <<>>
            ELSE << <<"ParamBrowLY", riggedFace.brow[1].l>>,
                    <<"ParamBrowRY", riggedFace.brow[1].r>> >>
    IN ApplyAll(st, m, eyeCalls \o pupilCalls \o mouthCalls \o browCalls)

\* A solver branch that turns to the fallback's formulas when the solver
\* gives no result or no head.
SolverStrategyFallingBack(st, m, f) ==
    LET riggedFace == Solve(f) IN
    IF riggedFace.threw THEN Throw(st)
    ELSE IF riggedFace.isNull \/ riggedFace.head = None
        THEN FallbackStrategy(st, m, Landmarks(f))
    ELSE LET afterHead == SolverHead(st, m, riggedFace.head[1])
         IN IF afterHead.raised THEN afterHead
            ELSE SolverFace(afterHead, m, riggedFace)

\* The solver branch (lines 303-377) for the face f the landmarks belong to.
SolverStrategy(st, m, f) ==
    LET riggedFace == Solve(f) IN
    IF riggedFace.threw THEN Throw(st)
    ELSE IF riggedFace.isNull THEN st
    ELSE LET afterHead ==
                 IF riggedFace.head = None THEN st
                 ELSE SolverHead(st, m, riggedFace.head[1])
         IN IF afterHead.raised THEN afterHead
            ELSE SolverFace(afterHead, m, riggedFace)

\* A test that finds a solver whatever the probe at startup gave.
SolverAvailableAlways(kalidokit) == kalidokit \in {"loaded", NULL}

\* Kalidokit && Kalidokit.Face (line 303)
SolverAvailable(kalidokit) == kalidokit = "loaded"

\* The try block of a face-present frame with an internal model
\* (lines 288-437).
TrackFace(kalidokit, st, m, f) ==
    IF SolverAvailable(kalidokit)
        THEN SolverStrategy(st, m, f)
        ELSE FallbackStrategy(st, m, Landmarks(f))

\* A guard with a one-frame debounce: a face is taken up only when the
\* callback before also reported one.
NoFaceOrNoModelDebounced(ref, res) ==
    \/ ref = NULL \/ ~res.hasLandmarks \/ Len(res.multiFaceLandmarks) = 0
    \/ ~results.hasLandmarks \/ Len(results.multiFaceLandmarks) = 0

\* The guard of line 270: no model, or no face in the result.
NoFaceOrNoModel(ref, res) ==
    ref = NULL \/ ~res.hasLandmarks \/ Len(res.multiFaceLandmarks) = 0

FacePresent(res) == res.hasLandmarks /\ Len(res.multiFaceLandmarks) > 0

\* A driver without the try/catch of lines 279 and 438: an exception of
\* the frame leaves the callback.
FrameResultUncaught(kalidokit, ref, smoothedNow, table, res) ==
    IF NoFaceOrNoModel(ref, res)
        THEN [smoothed |-> smoothedNow, table |-> table, calls |-> <<>>, outcome |-> "skipped"]
    ELSE IF ~HasInternalModel(ref)
        THEN [smoothed |-> smoothedNow, table |-> table, calls |-> <<>>, outcome |-> "nointernal"]
    ELSE LET st == TrackFace(kalidokit, FrameStart(smoothedNow, table), ref,
                             res.multiFaceLandmarks[1])
         IN [smoothed |-> st.smoothed, table |-> st.table, calls |-> st.calls,
             outcome |-> IF st.raised THEN "threw" ELSE "done"]

\* A driver that tracks the last face of the result.
FrameResultLastFace(kalidokit, ref, smoothedNow, table, res) ==
    IF NoFaceOrNoModel(ref, res)
        THEN [smoothed |-> smoothedNow, table |-> table, calls |-> <<>>, outcome |-> "skipped"]
    ELSE IF ~HasInternalModel(ref)
        THEN [smoothed |-> smoothedNow, table |-> table, calls |-> <<>>, outcome |-> "nointernal"]
    ELSE LET st == TrackFace(kalidokit, FrameStart(smoothedNow, table), ref,
                             res.multiFaceLandmarks[Len(res.multiFaceLandmarks)])
         IN [smoothed |-> st.smoothed, table |-> st.table, calls |-> st.calls,
             outcome |-> IF st.raised THEN "caught" ELSE "done"]

\* A driver that lets the accumulators decay toward 0 on a skipped frame.
FrameResultDecay(kalidokit, ref, smoothedNow, table, res) ==
    IF NoFaceOrNoModel(ref, res)
        THEN [smoothed |-> [c \in Channels |-> Smooth(smoothedNow[c], Zero)],
              table |-> table, calls |-> <<>>, outcome |-> "skipped"]
    ELSE IF ~HasInternalModel(ref)
        THEN [smoothed |-> smoothedNow, table |-> table, calls |-> <<>>, outcome |-> "nointernal"]
    ELSE LET st == TrackFace(kalidokit, FrameStart(smoothedNow, table), ref,
                             res.multiFaceLandmarks[1])
         IN [smoothed |-> st.smoothed, table |-> st.table, calls |-> st.calls,
             outcome |-> IF st.raised THEN "caught" ELSE "done"]

\* A driver that returns the puppet to its neutral pose on a skipped frame.
FrameResultNeutral(kalidokit, ref, smoothedNow, table, res) ==
    IF NoFaceOrNoModel(ref, res)
        THEN [smoothed |-> smoothedNow, table |-> TableInit, calls |-> <<>>,
              outcome |-> "skipped"]
    ELSE IF ~HasInternalModel(ref)
        THEN [smoothed |-> smoothedNow, table |-> table, calls |-> <<>>, outcome |-> "nointernal"]
    ELSE LET st == TrackFace(kalidokit, FrameStart(smoothedNow, table), ref,
                             res.multiFaceLandmarks[1])
         IN [smoothed |-> st.smoothed, table |-> st.table, calls |-> st.calls,
             outcome |-> IF st.raised THEN "caught" ELSE "done"]

\* updateLive2DParameters (lines 266-441) as a function of what it reads:
\* the accumulators, table and setParameter calls after the callback, and
\* where the callback left ("skipped": the return of line 272, "nointernal":
\* the return of line 285, "caught": the catch of line 438, "done": the end
\* of the try block).
FrameResult(kalidokit, ref, smoothedNow, table, res) ==
    IF NoFaceOrNoModel(ref, res)
        THEN [smoothed |-> smoothedNow, table |-> table, calls |-> <<>>, outcome |-> "skipped"]
    ELSE IF ~HasInternalModel(ref)
        THEN [smoothed |-> smoothedNow, table |-> table, calls |-> <<>>, outcome |-> "nointernal"]
    ELSE LET st == TrackFace(kalidokit, FrameStart(smoothedNow, table), ref,
                             res.multiFaceLandmarks[1])
         IN [smoothed |-> st.smoothed, table |-> st.table, calls |-> st.calls,
             outcome |-> IF st.raised THEN "caught" ELSE "done"]

\* ------------------------------------------------------------ frame driver
\* The callback registered with faceMesh.onResults (lines 443-445) run on
\* one detection result.
updateLive2DParameters(res) ==
    /\ debugFrameCount' = debugFrameCount + 1
    /\ results' = res
    /\ \E out \in {FrameResult(Kalidokit, modelRef, smoothed, paramTable, res)} :
        /\ smoothed' = out.smoothed
        /\ paramTable' = out.table
        /\ calls' = out.calls
        /\ outcome' = out.outcome
    /\ UNCHANGED <<Kalidokit, puppetVars, error, effectVars, calcVars>>

\* The detector delivers a result to the registered callback.
OnResults ==
    /\ faceMesh = "open"
    /\ debugFrameCount < MaxFrames
    /\ \E res \in DetectionResults : updateLive2DParameters(res)
    /\ UNCHANGED <<feedVars, historyVars>>

\* ------------------------------------------------------------ model switch
\* loadModel up to its await (lines 77-94): without an application it
\* returns; otherwise the current puppet is destroyed, the ref cleared and
\* Live2DModel.from(path) is in flight.
loadModelStart(path) ==
    IF appRef = NULL
        THEN UNCHANGED <<modelRef, paramTable, puppets, loading>>
        ELSE /\ modelRef' = NULL
             /\ paramTable' = TableInit
             /\ puppets' = puppets \ {modelRef}
             /\ loading' = loading \cup {path}

\* loadModel after Live2DModel.from resolved (lines 95-115): the puppet is
\* stored in the ref; placing it reads appRef.current, which raises into
\* the catch of line 112 when the application is gone.
loadModelResolved(path) ==
    /\ loading' = loading \ {path}
    /\ modelRef' = path
    /\ paramTable' = TableInit
    /\ puppets' = puppets \cup {path}
    /\ error' = IF appRef = NULL THEN "load" ELSE error

\* loadModel after Live2DModel.from rejected (lines 112-115).
loadModelRejected(path) ==
    /\ loading' = loading \ {path}
    /\ error' = "load"
    /\ UNCHANGED <<modelRef, paramTable, puppets>>

\* The paths a selection can name; "missing" does not load.
Paths == Models \cup {"missing"}

\* A selection that also clears the accumulators.
SelectModelResetting ==
    /\ selections < MaxSelections
    /\ appRef # NULL
    /\ \E path \in (Paths \ loading) \ {selectedModelPath} :
        loadModelStart(path) /\ selectedModelPath' = path
    /\ selections' = selections + 1
    /\ smoothed' = SmoothedInit
    /\ UNCHANGED <<Kalidokit, debugFrameCount, results, outcome, calls, error,
                   effectVars, feedVars, historyVars, calcVars>>

\* The effect of lines 557-564 on a new selection.
SelectModel ==
    /\ selections < MaxSelections
    /\ appRef # NULL
    /\ \E path \in (Paths \ loading) \ {selectedModelPath} :
        loadModelStart(path) /\ selectedModelPath' = path
    /\ selections' = selections + 1
    /\ UNCHANGED <<Kalidokit, smoothed, debugFrameCount, results, outcome, calls, error,
                   effectVars, feedVars, historyVars, calcVars>>

LoadResolved ==
    /\ pc = "done"
    /\ \E path \in loading \cap Models : loadModelResolved(path)
    /\ UNCHANGED <<Kalidokit, smoothed, debugFrameCount, results, outcome, calls,
                   selections, selectedModelPath, effectVars, feedVars, historyVars, calcVars>>

LoadFailed ==
    /\ pc = "done"
    /\ \E path \in loading \ Models : loadModelRejected(path)
    /\ UNCHANGED <<Kalidokit, smoothed, debugFrameCount, results, outcome, calls,
                   selections, selectedModelPath, effectVars, feedVars, historyVars, calcVars>>

\* ------------------------------------------------------------ switching alone
\* Selections through the switcher and the settling of the loads they
\* start, in every order.  A path is selected when it differs from the
\* selected one (the effect of line 557 runs on a change) and no load of it
\* is in flight.
SwitchModel ==
    /\ selections < MaxSwitches
    /\ appRef # NULL
    /\ \E path \in (Paths \ loading) \ {selectedModelPath} :
        loadModelStart(path) /\ selectedModelPath' = path
    /\ selections' = selections + 1
    /\ UNCHANGED <<Kalidokit, smoothed, debugFrameCount, results, outcome, calls, error,
                   effectVars, feedVars, historyVars, calcVars>>

\* ------------------------------------------------------------ specification
\* The view once init has run to its end (line 512): the solver probe is
\* settled, the accumulators are 0, the initial puppet is loaded or its
\* load failed, the detector is open and the camera started.
Init ==
    /\ Kalidokit \in {"loaded", NULL}
    /\ smoothed = SmoothedInit
    /\ debugFrameCount = 0
    /\ results = NoLandmarks
    /\ outcome = "none"
    /\ calls = <<>>
    /\ modelRef \in Models \cup {NULL}
    /\ paramTable = TableInit
    /\ puppets = IF modelRef = NULL THEN {} ELSE {modelRef}
    /\ loading = {}
    /\ selections = 0
    /\ selectedModelPath = IF modelRef = NULL THEN "missing" ELSE modelRef
    /\ error = IF modelRef = NULL THEN "load" ELSE NULL
    /\ pc = "done"
    /\ cleanedUp = FALSE
    /\ appRef = "app" /\ app = "live"
    /\ faceMeshRef = "faceMesh" /\ faceMesh = "open"
    /\ cameraRef = "camera" /\ camera = "started"
    /\ stream = "live" /\ videoSrcObject = TRUE /\ videoAttached = TRUE
    /\ resizeListener = TRUE
    /\ sent = 0 /\ pending = 0
    /\ runStart = SmoothedInit /\ runLen = 0 /\ idleFrames = 0 /\ poseAtLoss = TableInit
    /\ clampIn = None /\ clampOut = None
    /\ rawIn = None /\ rawOut = None
    /\ NoReRun /\ NoRequest
    /\ sizeViewer = "camera" /\ attempts = 1 /\ sizeResolved = Some(<<640, 480>>)
    /\ parent = Some(<<640, 480>>)

Next == OnResults \/ SelectModel \/ LoadResolved \/ LoadFailed

Spec == Init /\ [][Next]_vars

NextSwitch == SwitchModel \/ LoadResolved \/ LoadFailed

SpecSwitch == Init /\ [][NextSwitch]_vars

\* ------------------------------------------------------------ steady feed
\* The same view fed longer runs of a smaller set of results, with no
\* model switch; the history of the feed is recorded.
SteadyResults ==
    {NoLandmarks}
    \cup {[hasLandmarks |-> TRUE, multiFaceLandmarks |-> fs] :
            fs \in {<<>>, <<"ten">>, <<"wide">>, <<"short">>}}

\* The history after a callback on res: a run continues when this frame and
\* the one before were both tracked to the end on the same result.
RecordFeed(res) ==
    LET tracked == outcome' = "done"
        continues == tracked /\ runLen > 0 /\ res = results /\ outcome = "done"
        absent == ~FacePresent(res)
    IN /\ runLen' = IF continues THEN runLen + 1 ELSE IF tracked THEN 1 ELSE 0
       /\ runStart' = IF continues THEN runStart ELSE smoothed
       /\ idleFrames' = IF absent THEN idleFrames + 1 ELSE 0
       /\ poseAtLoss' = IF absent /\ idleFrames > 0 THEN poseAtLoss ELSE paramTable

OnSteadyResults ==
    /\ faceMesh = "open"
    /\ debugFrameCount < MaxSteadyFrames
    /\ \E res \in SteadyResults : updateLive2DParameters(res) /\ RecordFeed(res)
    /\ UNCHANGED feedVars

NextSteady == OnSteadyResults

SpecSteady == Init /\ [][NextSteady]_vars

\* ------------------------------------------------------------ several faces
\* The callback on results that list one or two faces.
FirstFaces == {"ten", "wide"}
OtherFaces == {"ten", "wide", "short"}
ManyFaceResults ==
    {[hasLandmarks |-> TRUE, multiFaceLandmarks |-> fs] :
        fs \in {<<f>> : f \in FirstFaces} \cup {<<f, g>> : f \in FirstFaces, g \in OtherFaces}}

OnManyFaces ==
    /\ faceMesh = "open"
    /\ debugFrameCount < MaxFaceFrames
    /\ \E res \in ManyFaceResults : updateLive2DParameters(res)
    /\ UNCHANGED <<feedVars, historyVars>>

NextFaces == OnManyFaces

SpecFaces == Init /\ [][NextFaces]_vars

\* ------------------------------------------------------------ solver gaps
\* The view fed faces the solver answers in full, not at all, or without
\* the head channel.
MaxGapFrames == 3    \* detection callbacks delivered in one behaviour of SpecGaps

GapFaces == {"ten", "wide", "blank", "headless"}
GapResults == {[hasLandmarks |-> TRUE, multiFaceLandmarks |-> <<f>>] : f \in GapFaces}

OnGapResults ==
    /\ faceMesh = "open"
    /\ debugFrameCount < MaxGapFrames
    /\ \E res \in GapResults : updateLive2DParameters(res)
    /\ UNCHANGED <<feedVars, historyVars>>

NextGaps == OnGapResults

SpecGaps == Init /\ [][NextGaps]_vars

\* ------------------------------------------------------------ setup effect
\* The effect of lines 118-555 from the call of init (line 521) on: init
\* advances from await to await, the cleanup of line 523 can run between
\* any two of its steps, and the camera helper and the detector run on
\* their own once started.
InitialPaths == {"full", "missing"}
LifeResults ==
    {NoLandmarks, [hasLandmarks |-> TRUE, multiFaceLandmarks |-> <<"ten">>]}

frameAndHistory == <<smoothed, debugFrameCount, results, outcome, calls, historyVars>>

\* waitForParentSize resolved (lines 160-173): the application is created
\* on the canvas captured at line 119 and stored in the ref.
SizeResolved ==
    /\ pc = "waitSize"
    /\ app' = "live" /\ appRef' = "app"
    /\ attempts' = 1 /\ sizeResolved' = Some(<<640, 480>>)
    /\ parent' = Some(<<640, 480>>)
    /\ pc' = "waitTicker"
    /\ UNCHANGED <<Kalidokit, frameAndHistory, paramTable, puppetVars, error, cleanedUp,
                   faceMeshRef, faceMesh, cameraRef, camera, stream, videoSrcObject,
                   videoAttached, resizeListener, feedVars, clampVars, sizeViewer, rawVars,
                   mountVars, catalogVars>>

\* The ticker poll of lines 176-189 and the registration of lines 192-205.
\* On a destroyed application the poll raises inside its animation-frame
\* callback and the promise never resolves.
TickerReady ==
    /\ pc = "waitTicker"
    /\ IF app = "destroyed"
        THEN pc' = "hung" /\ error' = error
        ELSE \E registered \in BOOLEAN :
                IF registered THEN pc' = "sleep" /\ error' = error
                              ELSE pc' = "failed" /\ error' = "ticker"
    /\ UNCHANGED <<Kalidokit, frameAndHistory, paramTable, puppetVars, cleanedUp, appRef, app,
                   faceMeshRef, faceMesh, cameraRef, camera, stream, videoSrcObject,
                   videoAttached, resizeListener, feedVars, calcVars>>

\* The timer of line 208 fired and loadModel(selectedModelPath) ran to its
\* await, or returned at line 78 for want of an application.
TimerFired ==
    /\ pc = "sleep"
    /\ loadModelStart(selectedModelPath)
    /\ pc' = IF appRef = NULL THEN "importFaceMesh" ELSE "loadModel"
    /\ UNCHANGED <<Kalidokit, frameAndHistory, selections, selectedModelPath, error,
                   cleanedUp, appRef, app,
                   faceMeshRef, faceMesh, cameraRef, camera, stream, videoSrcObject,
                   videoAttached, resizeListener, feedVars, calcVars>>

\* The initial load settled (line 209).
InitialLoadSettled ==
    /\ pc = "loadModel"
    /\ \E path \in loading :
        IF path \in Models THEN loadModelResolved(path) ELSE loadModelRejected(path)
    /\ pc' = "importFaceMesh"
    /\ UNCHANGED <<Kalidokit, frameAndHistory, selections, selectedModelPath, cleanedUp,
                   appRef, app,
                   faceMeshRef, faceMesh, cameraRef, camera, stream, videoSrcObject,
                   videoAttached, resizeListener, feedVars, calcVars>>

\* A setup that reports the missing constructor and goes on all the same,
\* as if line 221 logged instead of throwing.
FaceMeshImportedLenient ==
    /\ pc = "importFaceMesh"
    /\ \E found \in BOOLEAN :
        /\ faceMesh' = "open" /\ pc' = "importKalidokit"
        /\ error' = IF found THEN error ELSE "init"
    /\ UNCHANGED <<Kalidokit, frameAndHistory, paramTable, puppetVars, cleanedUp, appRef, app,
                   faceMeshRef, cameraRef, camera, stream, videoSrcObject,
                   videoAttached, resizeListener, feedVars, calcVars>>

\* import('@mediapipe/face_mesh') settled (lines 212-233): the detector is
\* constructed, or no constructor is found and line 221 throws to the
\* catch of line 514.
FaceMeshImported ==
    /\ pc = "importFaceMesh"
    /\ \E found \in BOOLEAN :
        IF found THEN faceMesh' = "open" /\ pc' = "importKalidokit" /\ error' = error
                 ELSE faceMesh' = faceMesh /\ pc' = "failed" /\ error' = "init"
    /\ UNCHANGED <<Kalidokit, frameAndHistory, paramTable, puppetVars, cleanedUp, appRef, app,
                   faceMeshRef, cameraRef, camera, stream, videoSrcObject,
                   videoAttached, resizeListener, feedVars, calcVars>>

\* import('kalidokit') settled (lines 236-447): the accumulators are
\* declared, the callback registered and the detector stored in its ref.
KalidokitImported ==
    /\ pc = "importKalidokit"
    /\ Kalidokit' \in {"loaded", NULL}
    /\ smoothed' = SmoothedInit /\ debugFrameCount' = 0
    /\ faceMeshRef' = "faceMesh"
    /\ pc' = "getUserMedia"
    /\ UNCHANGED <<results, outcome, calls, historyVars, paramTable, puppetVars, error,
                   cleanedUp, appRef, app, faceMesh, cameraRef, camera, stream,
                   videoSrcObject, videoAttached, resizeListener, feedVars, calcVars>>

\* getUserMedia resolved (lines 452-458): the stream is put on the video
\* element captured at line 120.
MediaGranted ==
    /\ pc = "getUserMedia"
    /\ stream' = "live" /\ videoSrcObject' = TRUE
    /\ pc' = "importCamera"
    /\ UNCHANGED <<Kalidokit, frameAndHistory, paramTable, puppetVars, error, cleanedUp,
                   appRef, app, faceMeshRef, faceMesh, cameraRef, camera,
                   videoAttached, resizeListener, feedVars, calcVars>>

\* getUserMedia rejected (lines 483-486); init goes on to register the
\* resize handler (lines 492-512).
MediaDenied ==
    /\ pc = "getUserMedia"
    /\ error' = "camera"
    /\ resizeListener' = TRUE
    /\ pc' = "done"
    /\ UNCHANGED <<Kalidokit, frameAndHistory, paramTable, puppetVars, cleanedUp,
                   appRef, app, faceMeshRef, faceMesh, cameraRef, camera, stream,
                   videoSrcObject, videoAttached, feedVars, calcVars>>

\* import('@mediapipe/camera_utils') settled (lines 461-482): the helper is
\* started and stored, or no constructor is found (a warning only), or
\* the constructor raises; then the resize handler is registered.
CameraImported ==
    /\ pc = "importCamera"
    /\ \E ctor \in {"found", "missing", "raises"} :
        CASE ctor = "found" -> camera' = "started" /\ cameraRef' = "camera" /\ error' = error
          [] ctor = "missing" -> camera' = camera /\ cameraRef' = cameraRef /\ error' = error
          [] ctor = "raises" -> camera' = camera /\ cameraRef' = cameraRef /\ error' = "camera"
    /\ resizeListener' = TRUE
    /\ pc' = "done"
    /\ UNCHANGED <<Kalidokit, frameAndHistory, paramTable, puppetVars, cleanedUp,
                   appRef, app, faceMeshRef, faceMesh, stream, videoSrcObject,
                   videoAttached, feedVars, calcVars>>

\* The cleanup of lines 523-554: each resource is released only if its ref
\* holds it when the cleanup runs. The early return of line 126 hands no
\* cleanup to the framework.
Cleanup ==
    /\ ~cleanedUp /\ pc # "nocore"
    /\ cleanedUp' = TRUE
    /\ IF cameraRef # NULL THEN camera' = "stopped" /\ cameraRef' = NULL
                           ELSE UNCHANGED <<camera, cameraRef>>
    /\ IF faceMeshRef # NULL THEN faceMesh' = "closed" /\ faceMeshRef' = NULL
                             ELSE UNCHANGED <<faceMesh, faceMeshRef>>
    /\ IF videoAttached /\ videoSrcObject THEN stream' = "stopped" /\ videoSrcObject' = FALSE
                                          ELSE UNCHANGED <<stream, videoSrcObject>>
    /\ IF modelRef # NULL
        THEN puppets' = puppets \ {modelRef} /\ modelRef' = NULL /\ paramTable' = TableInit
        ELSE UNCHANGED <<puppets, modelRef, paramTable>>
    /\ IF appRef # NULL THEN resizeListener' = FALSE /\ app' = "destroyed" /\ appRef' = NULL
                        ELSE UNCHANGED <<resizeListener, app, appRef>>
    /\ UNCHANGED <<Kalidokit, frameAndHistory, loading, selections, selectedModelPath, error, pc,
                   videoAttached, feedVars, calcVars>>

\* The render of lines 566-572: with an error set the banner replaces the
\* canvas and the video element, and videoRef.current becomes null.
RenderError ==
    /\ error # NULL /\ videoAttached
    /\ videoAttached' = FALSE
    /\ UNCHANGED <<Kalidokit, frameAndHistory, paramTable, puppetVars, error, pc, cleanedUp,
                   appRef, app, faceMeshRef, faceMesh, cameraRef, camera, stream,
                   videoSrcObject, resizeListener, feedVars, calcVars>>

\* onFrame of the started camera helper (lines 474-476): faceMesh.send on
\* the detector of the closure; a closed detector takes no frame in.
CameraFrame ==
    /\ camera = "started"
    /\ sent < MaxLifeFrames
    /\ sent' = sent + 1
    /\ pending' = IF faceMesh = "open" THEN pending + 1 ELSE pending
    /\ UNCHANGED <<Kalidokit, frameVars, puppetVars, error, effectVars, historyVars, calcVars>>

\* The detector delivers the result of a submitted frame (line 443).
DeliverResults ==
    /\ pending > 0 /\ faceMesh = "open"
    /\ \E res \in LifeResults : updateLive2DParameters(res)
    /\ pending' = pending - 1
    /\ UNCHANGED <<sent, historyVars>>

\* The effect has just called init (line 521), which stands at its first
\* await (line 160).
EffectStarted ==
    /\ Kalidokit = NULL
    /\ smoothed = SmoothedInit
    /\ debugFrameCount = 0
    /\ results = NoLandmarks
    /\ outcome = "none"
    /\ calls = <<>>
    /\ modelRef = NULL
    /\ paramTable = TableInit
    /\ puppets = {}
    /\ loading = {}
    /\ selections = 0
    /\ selectedModelPath \in InitialPaths
    /\ error = NULL
    /\ pc = "waitSize"
    /\ cleanedUp = FALSE
    /\ appRef = NULL /\ app = "none"
    /\ faceMeshRef = NULL /\ faceMesh = "none"
    /\ cameraRef = NULL /\ camera = "none"
    /\ stream = "none" /\ videoSrcObject = FALSE /\ videoAttached = TRUE
    /\ resizeListener = FALSE
    /\ sent = 0 /\ pending = 0
    /\ runStart = SmoothedInit /\ runLen = 0 /\ idleFrames = 0 /\ poseAtLoss = TableInit

\* The effect found no Live2DCubismCore on the window (lines 124-127): the
\* message is set and the effect returns before init is defined.
CoreMissing ==
    /\ Kalidokit = NULL
    /\ smoothed = SmoothedInit
    /\ debugFrameCount = 0
    /\ results = NoLandmarks
    /\ outcome = "none"
    /\ calls = <<>>
    /\ modelRef = NULL
    /\ paramTable = TableInit
    /\ puppets = {}
    /\ loading = {}
    /\ selections = 0
    /\ selectedModelPath \in InitialPaths
    /\ error = "core"
    /\ pc = "nocore"
    /\ cleanedUp = FALSE
    /\ appRef = NULL /\ app = "none"
    /\ faceMeshRef = NULL /\ faceMesh = "none"
    /\ cameraRef = NULL /\ camera = "none"
    /\ stream = "none" /\ videoSrcObject = FALSE /\ videoAttached = TRUE
    /\ resizeListener = FALSE
    /\ sent = 0 /\ pending = 0
    /\ runStart = SmoothedInit /\ runLen = 0 /\ idleFrames = 0 /\ poseAtLoss = TableInit

InitLife ==
    /\ (EffectStarted \/ CoreMissing)
    /\ clampIn = None /\ clampOut = None
    /\ rawIn = None /\ rawOut = None
    /\ NoReRun /\ NoRequest
    /\ sizeViewer = "camera" /\ attempts = 0 /\ sizeResolved = None /\ parent = None

NextLife ==
    \/ SizeResolved \/ TickerReady \/ TimerFired \/ InitialLoadSettled
    \/ FaceMeshImported \/ KalidokitImported \/ MediaGranted \/ MediaDenied
    \/ CameraImported \/ Cleanup \/ RenderError \/ CameraFrame \/ DeliverResults

SpecLife == InitLife /\ [][NextLife]_vars

\* The setup with its scheduling: a settled promise resumes init, a started
\* camera helper keeps calling onFrame, the detector answers every frame it
\* took in and a state change is rendered.  Nothing obliges the cleanup to
\* run.
InitStep ==
    \/ SizeResolved \/ TickerReady \/ TimerFired \/ InitialLoadSettled
    \/ FaceMeshImported \/ KalidokitImported \/ MediaGranted \/ MediaDenied
    \/ CameraImported

SpecLifeFair ==
    /\ SpecLife
    /\ WF_vars(InitStep) /\ WF_vars(RenderError)
    /\ WF_vars(CameraFrame) /\ WF_vars(DeliverResults)

\* ------------------------------------------------------------ the clamp alone
\* The clamps of lines 319-321 and 428-436 applied to values around their
\* bounds: every pair of bounds the code uses, and values up to
\* ClampSpread half-units to either side of each bound, and 0.
ClampRanges == {<<-70, 70>>, <<-50, 50>>, <<-30, 30>>, <<0, 1>>, <<-1, 1>>}

ClampValues(lo, hi) ==
    {Num(2 * lo + j, 2) : j \in -ClampSpread..ClampSpread}
    \cup {Num(2 * hi + j, 2) : j \in -ClampSpread..ClampSpread}
    \cup {Zero}

ClampInputs ==
    UNION {{[lo |-> r[1], hi |-> r[2], x |-> x, y |-> y] :
                x \in ClampValues(r[1], r[2]), y \in ClampValues(r[1], r[2])} :
           r \in ClampRanges}

\* Math.max(lo, Math.min(hi, .)) is applied to x, to y, and to its own
\* result for x.
ApplyClamp ==
    /\ clampIn # None /\ clampOut = None
    /\ LET in == clampIn[1] IN
       clampOut' = Some([x |-> Clamp(in.lo, in.hi, in.x),
                         y |-> Clamp(in.lo, in.hi, in.y),
                         xx |-> Clamp(in.lo, in.hi, Clamp(in.lo, in.hi, in.x))])
    /\ UNCHANGED <<Kalidokit, frameVars, puppetVars, error, effectVars, feedVars,
                   historyVars, clampIn, sizeVars, rawVars, mountVars, catalogVars>>

InitClamp ==
    /\ EffectStarted /\ selectedModelPath = "full"
    /\ clampIn \in {Some(in) : in \in ClampInputs} /\ clampOut = None
    /\ rawIn = None /\ rawOut = None
    /\ NoReRun /\ NoRequest
    /\ sizeViewer = "camera" /\ attempts = 0 /\ sizeResolved = None /\ parent = None

NextClamp == ApplyClamp

SpecClamp == InitClamp /\ [][NextClamp]_vars

\* ------------------------------------------------------------ the raw signals alone
\* The formulas of lines 380-423 applied to landmark sets that take each
\* coordinate the formulas read from one of the two modelled faces.
ReadX == {1, 33, 263}
ReadY == {1, 13, 14, 33, 145, 159, 234, 263, 374, 386, 454}

MixedPoints ==
    {[i \in ReadY |->
        [x |-> IF i \in ReadX /\ fromWideX[i] THEN PointsWide[i].x ELSE PointsTen[i].x,
         y |-> IF fromWideY[i] THEN PointsWide[i].y ELSE PointsTen[i].y]] :
        fromWideX \in [ReadX -> BOOLEAN], fromWideY \in [ReadY -> BOOLEAN]}

ApplyRaw ==
    /\ rawIn # None /\ rawOut = None
    /\ rawOut' = Some([c \in FallbackChannels |-> FallbackRaw(rawIn[1], c)])
    /\ UNCHANGED <<Kalidokit, frameVars, puppetVars, error, effectVars, feedVars,
                   historyVars, clampVars, sizeVars, rawIn, mountVars, catalogVars>>

InitRaw ==
    /\ EffectStarted /\ selectedModelPath = "full"
    /\ clampIn = None /\ clampOut = None
    /\ sizeViewer = "camera" /\ attempts = 0 /\ sizeResolved = None /\ parent = None
    /\ rawIn \in {Some([length |-> 478, point |-> p]) : p \in MixedPoints}
    /\ rawOut = None
    /\ NoReRun /\ NoRequest

NextRaw == ApplyRaw

SpecRaw == InitRaw /\ [][NextRaw]_vars

\* ------------------------------------------------------------ the size wait
\* waitForParentSize of the camera viewer (lines 132-158) and of the
\* display viewer (display/Live2DViewer.tsx, lines 52-81) followed on
\* their own, one check at a time.
maxAttempts == 100
maxAttemptsDisplay == 100

\* What a check can read: no parent element, or the parent's clientWidth
\* and clientHeight.
Measurements ==
    {None} \cup {Some(<<w, h>>) : w \in {0, 1, 640}, h \in {0, 480}}

\* A check that takes a single positive dimension for a size.
checkSizeEither(n, measured) ==
    LET count == n + 1
    IN IF measured # None /\ (measured[1][1] > 0 \/ measured[1][2] > 0)
        THEN [attempts |-> count, resolved |-> measured]
       ELSE IF count >= maxAttempts
        THEN [attempts |-> count, resolved |-> Some(<<800, 600>>)]
       ELSE [attempts |-> count, resolved |-> None]

\* checkSize of the camera viewer (lines 137-155); resolved is None when
\* the check asks for another animation frame.
checkSize(n, measured) ==
    LET count == n + 1
    IN IF measured # None /\ measured[1][1] > 0 /\ measured[1][2] > 0
        THEN [attempts |-> count, resolved |-> measured]
       ELSE IF count >= maxAttempts
        THEN [attempts |-> count, resolved |-> Some(<<800, 600>>)]
       ELSE [attempts |-> count, resolved |-> None]

\* checkSize of the display viewer (display/Live2DViewer.tsx, lines 57-78).
checkSizeDisplay(n, measured) ==
    LET count == n + 1
    IN IF measured # None /\ measured[1][1] > 0 /\ measured[1][2] > 0
        THEN [attempts |-> count, resolved |-> measured]
       ELSE IF count >= maxAttemptsDisplay
        THEN [attempts |-> count, resolved |-> Some(<<800, 600>>)]
       ELSE [attempts |-> count, resolved |-> None]

CheckStep ==
    \E measured \in Measurements :
        \E r \in {IF sizeViewer = "camera" THEN checkSize(attempts, measured)
                                           ELSE checkSizeDisplay(attempts, measured)} :
            /\ attempts' = r.attempts
            /\ sizeResolved' = r.resolved
            /\ parent' = measured
            /\ UNCHANGED <<Kalidokit, frameVars, puppetVars, error, effectVars, feedVars,
                           historyVars, clampVars, sizeViewer, rawVars, mountVars, catalogVars>>

\* The call of checkSize inside the promise (line 156).
waitForParentSize ==
    /\ attempts = 0 /\ sizeResolved = None
    /\ CheckStep

\* The call of checkSize by the animation frame requested at line 154.
AnimationFrame ==
    /\ attempts > 0 /\ sizeResolved = None
    /\ CheckStep

InitSize ==
    /\ EffectStarted /\ selectedModelPath = "full"
    /\ clampIn = None /\ clampOut = None
    /\ rawIn = None /\ rawOut = None
    /\ NoReRun /\ NoRequest
    /\ sizeViewer \in {"camera", "display"}
    /\ attempts = 0 /\ sizeResolved = None /\ parent = None

NextSize == waitForParentSize \/ AnimationFrame

\* The browser runs a requested animation frame.
SpecSize ==
    InitSize /\ [][NextSize]_vars /\ WF_vars(waitForParentSize) /\ WF_vars(AnimationFrame)

\* ------------------------------------------------------------ the effect re-run
\* The runs of the setup effect on one mounted viewer: React calls the
\* cleanup of a run and runs the effect again (a change of modelPath, or
\* the mount, unmount and mount again of Strict Mode) while the canvas
\* stays the same element.
MaxEffectRuns == 3    \* runs of the effect followed on one mounted viewer

\* The guard of the camera viewer (line 122); canvas and video are mounted.
AlreadyInitialised == appRef # NULL

\* The guard of the display viewer (display/Live2DViewer.tsx, line 38).
AlreadyInitialisedDisplay == appRef # NULL

\* React runs the effect: behind the guard it calls init() (line 521),
\* which stops at its first await (line 160), and returns the cleanup.
\* A run stopped by the guard returns nothing.
EffectRun ==
    /\ ~effectActive /\ effectRuns < MaxEffectRuns
    /\ effectRuns' = effectRuns + 1
    /\ \E initialised \in {IF sizeViewer = "camera" THEN AlreadyInitialised
                                                    ELSE AlreadyInitialisedDisplay} :
          IF initialised
          THEN effectActive' = FALSE /\ runs' = runs
          ELSE effectActive' = TRUE /\ runs' = Append(runs, "waitSize")
    /\ UNCHANGED <<Kalidokit, frameVars, puppetVars, error, effectVars, feedVars,
                   historyVars, clampVars, sizeVars, rawVars, canvasApps, catalogVars>>

\* An init() resumes behind waitForParentSize, constructs its application
\* on the canvas and stores it in appRef (lines 160-173; display viewer
\* lines 83-98).
CreateApplication ==
    /\ \E i \in 1..Len(runs) :
          /\ runs[i] = "waitSize"
          /\ runs' = [runs EXCEPT ![i] = "created"]
    /\ canvasApps' = canvasApps + 1
    /\ appRef' = "app"
    /\ UNCHANGED <<Kalidokit, frameVars, puppetVars, error, pc, cleanedUp, app,
                   faceMeshRef, faceMesh, cameraRef, camera, stream, videoSrcObject,
                   videoAttached, resizeListener, feedVars, historyVars, clampVars,
                   sizeVars, rawVars, effectActive, effectRuns, catalogVars>>

\* React calls the cleanup of the run: it destroys the application appRef
\* holds, if any (lines 546-553; display viewer lines 335-345).
EffectCleanup ==
    /\ effectActive
    /\ effectActive' = FALSE
    /\ IF appRef # NULL
       THEN appRef' = NULL /\ canvasApps' = canvasApps - 1
       ELSE UNCHANGED <<appRef, canvasApps>>
    /\ UNCHANGED <<Kalidokit, frameVars, puppetVars, error, pc, cleanedUp, app,
                   faceMeshRef, faceMesh, cameraRef, camera, stream, videoSrcObject,
                   videoAttached, resizeListener, feedVars, historyVars, clampVars,
                   sizeVars, rawVars, effectRuns, runs, catalogVars>>

\* The first run of the effect has called init().
InitMount ==
    /\ EffectStarted /\ selectedModelPath = "full"
    /\ clampIn = None /\ clampOut = None
    /\ rawIn = None /\ rawOut = None
    /\ sizeViewer \in {"camera", "display"}
    /\ attempts = 0 /\ sizeResolved = None /\ parent = None
    /\ effectActive = TRUE /\ effectRuns = 1 /\ runs = <<"waitSize">> /\ canvasApps = 0
    /\ NoRequest

NextMount == EffectRun \/ CreateApplication \/ EffectCleanup

SpecMount == InitMount /\ [][NextMount]_vars

\* ------------------------------------------------------------ model catalog
\* GET /api/models (src/unnamed/part_000).  A string is the sequence of its
\* pieces: a path is its names separated by "/", a name is a stem followed
\* by its dot-suffixes.  The string functions work piece by piece.
Slash == "/"
ModelSuffix == <<".model3", ".json">>

\* path.join(a, b) of two normalised operands.
join(a, b) == a \o <<Slash>> \o b

LastSlash(p) == CHOOSE i \in 1..Len(p) : p[i] = Slash /\ \A j \in (i + 1)..Len(p) : p[j] # Slash

\* path.basename(p) and path.dirname(p) of a path with a directory part.
basename(p) == SubSeq(p, LastSlash(p) + 1, Len(p))
dirname(p) == SubSeq(p, 1, LastSlash(p) - 1)

\* String.prototype.endsWith, startsWith and replace (first occurrence).
endsWith(str, suffix) ==
    Len(str) >= Len(suffix) /\ SubSeq(str, Len(str) - Len(suffix) + 1, Len(str)) = suffix

startsWith(str, prefix) ==
    Len(str) >= Len(prefix) /\ SubSeq(str, 1, Len(prefix)) = prefix

replace(str, pattern, replacement) ==
    LET at == {i \in 1..(Len(str) - Len(pattern) + 1) :
                    SubSeq(str, i, i + Len(pattern) - 1) = pattern}
    IN IF at = {} THEN str
       ELSE LET i == CHOOSE k \in at : \A l \in at : k <= l
            IN SubSeq(str, 1, i - 1) \o replacement \o SubSeq(str, i + Len(pattern), Len(str))

\* process.cwd(), and the two directories of lines 49-50.
cwd == <<Slash, "srv">>
publicDir == join(cwd, <<"public">>)
modelsDir == join(publicDir, <<"live2dModel">>)

\* The names the server's tree is built from, in the order readdirSync
\* lists them.
NameOrder ==
    << <<".model3", ".json">>,
       <<"dangling">>,
       <<"hiyori">>,
       <<"hiyori", ".moc3">>,
       <<"hiyori", ".model3", ".json">>,
       <<"hiyori", ".model3", ".json", ".bak">>,
       <<"live2dModel">>,
       <<"mao">>,
       <<"mao", ".model3", ".json">>,
       <<"pack", ".model3", ".json">>,
       <<"runtime">>,
       <<"stray", ".model3", ".json">>,
       <<"top", ".model3", ".json">> >>

\* What can lie under public: directories, files, and entries statSync
\* raises on (a link whose target is gone).  The models directory can also
\* be a plain file.
Entry(dir, name, kind) == [path |-> join(dir, name), kind |-> kind]

Candidates ==
    LET hiyori == join(modelsDir, <<"hiyori">>)
        hiyoriRuntime == join(hiyori, <<"runtime">>)
        mao == join(modelsDir, <<"mao">>)
        runtime == join(modelsDir, <<"runtime">>)
        pack == join(modelsDir, <<"pack", ".model3", ".json">>)
    IN { Entry(publicDir, <<"live2dModel">>, "dir"),
         Entry(publicDir, <<"live2dModel">>, "file"),
         Entry(publicDir, <<"stray", ".model3", ".json">>, "file"),
         Entry(modelsDir, <<"hiyori">>, "dir"),
         Entry(hiyori, <<"runtime">>, "dir"),
         Entry(hiyoriRuntime, <<"hiyori", ".model3", ".json">>, "file"),
         Entry(hiyoriRuntime, <<"hiyori", ".moc3">>, "file"),
         Entry(hiyori, <<"hiyori", ".model3", ".json", ".bak">>, "file"),
         Entry(modelsDir, <<"mao">>, "dir"),
         Entry(mao, <<"mao", ".model3", ".json">>, "file"),
         Entry(modelsDir, <<"runtime">>, "dir"),
         Entry(runtime, <<"top", ".model3", ".json">>, "file"),
         Entry(modelsDir, <<".model3", ".json">>, "file"),
         Entry(modelsDir, <<"pack", ".model3", ".json">>, "dir"),
         Entry(pack, <<"mao", ".model3", ".json">>, "file"),
         Entry(mao, <<"dangling">>, "broken") }

\* A tree: no path twice, and every entry lies in a directory of the tree
\* (or directly under public).
IsTree(entries) ==
    /\ \A e, g \in entries : e.path = g.path => e = g
    /\ \A e \in entries :
          \/ dirname(e.path) = publicDir
          \/ [path |-> dirname(e.path), kind |-> "dir"] \in entries

Disks ==
    {[p \in {e.path : e \in entries} |-> (CHOOSE e \in entries : e.path = p).kind] :
        entries \in {es \in SUBSET Candidates : IsTree(es)}}

\* fs.existsSync(p)
existsSync(p) == p \in DOMAIN disk

\* fs.readdirSync(dir) of a directory: the names in it.
readdirSync(dir) == SelectSeq(NameOrder, LAMBDA name : join(dir, name) \in DOMAIN disk)

\* The label of lines 36-38 that names the parent directory only.
labelParentOnly(fullPath) == basename(dirname(fullPath))

\* The label of lines 29-38.
label(fullPath) ==
    LET parentDir == basename(dirname(fullPath))
    IN IF parentDir = <<"runtime">> THEN basename(dirname(dirname(fullPath)))
       ELSE parentDir

\* The web path of lines 23-24.
webPath(fullPath, baseDir) ==
    LET relativePath == replace(fullPath, baseDir, <<>>)
    IN IF startsWith(relativePath, <<Slash>>) THEN relativePath
       ELSE <<Slash>> \o relativePath

\* findModelFiles (lines 12-45): the list after the scan of dir, or that an
\* exception left it (readdirSync of something that is no directory,
\* statSync of an entry whose target is gone).  forOf is its loop over the
\* names not yet visited.
RECURSIVE findModelFiles(_, _, _), forOf(_, _, _, _)
findModelFiles(dir, baseDir, modelList) ==
    IF disk[dir] # "dir" THEN [raised |-> TRUE, modelList |-> modelList]
    ELSE forOf(readdirSync(dir), dir, baseDir, modelList)

forOf(files, dir, baseDir, modelList) ==
    IF files = <<>> THEN [raised |-> FALSE, modelList |-> modelList]
    ELSE LET file == Head(files)
             fullPath == join(dir, file)
         IN CASE disk[fullPath] = "broken" -> [raised |-> TRUE, modelList |-> modelList]
              [] disk[fullPath] = "dir" ->
                    LET inner == findModelFiles(fullPath, baseDir, modelList)
                    IN IF inner.raised THEN inner
                       ELSE forOf(Tail(files), dir, baseDir, inner.modelList)
              [] OTHER ->
                    IF endsWith(file, ModelSuffix)
                    THEN forOf(Tail(files), dir, baseDir,
                               Append(modelList, [label |-> label(fullPath),
                                                  path |-> webPath(fullPath, baseDir)]))
                    ELSE forOf(Tail(files), dir, baseDir, modelList)

\* The handler (lines 47-62).
GET ==
    /\ response = <<>>
    /\ \E found \in {IF existsSync(modelsDir) THEN findModelFiles(modelsDir, publicDir, <<>>)
                                             ELSE [raised |-> FALSE, modelList |-> <<>>]} :
          response' = IF found.raised
                      THEN <<[status |-> 500, error |-> "Failed to fetch models"]>>
                      ELSE <<[status |-> 200, models |-> found.modelList]>>
    /\ UNCHANGED <<Kalidokit, frameVars, puppetVars, error, effectVars, feedVars,
                   historyVars, clampVars, sizeVars, rawVars, mountVars, disk>>

InitCatalog ==
    /\ EffectStarted /\ selectedModelPath = "full"
    /\ clampIn = None /\ clampOut = None
    /\ rawIn = None /\ rawOut = None
    /\ NoReRun
    /\ sizeViewer = "camera" /\ attempts = 0 /\ sizeResolved = None /\ parent = None
    /\ disk \in Disks
    /\ response = <<>>

NextCatalog == GET

SpecCatalog == InitCatalog /\ [][NextCatalog]_vars

\* ------------------------------------------------------------ properties
\* A step that runs the result callback once.
Delivered == debugFrameCount' = debugFrameCount + 1

\* C1 (freeze invariant): a callback whose result holds no face
\* (multiFaceLandmarks missing or empty) leaves all thirteen accumulators
\* as they were, whatever frames came before.
C1_FreezeOnNoFace ==
    [][(Delivered /\ ~FacePresent(results')) => smoothed' = smoothed]_vars

\* A face-absent frame has just been delivered after frames that moved the
\* accumulators away from 0.
C1_Witness ==
    /\ debugFrameCount >= 2
    /\ results = [hasLandmarks |-> TRUE, multiFaceLandmarks |-> <<>>]
    /\ outcome = "skipped"
    /\ modelRef \in Models
    /\ \E c \in Channels : smoothed[c] # Zero

\* C2 (pose persistence under face loss): during a run of face-absent
\* frames no setParameter call is made and the parameter table is the one
\* the last frame before the run left, for every length of the run.
C2_PoseFrozenWhileIdle ==
    idleFrames > 0 => (paramTable = poseAtLoss /\ calls = <<>>)

\* Three face-absent frames in a row after a tracked frame posed the puppet.
C2_Witness ==
    /\ idleFrames >= 3
    /\ debugFrameCount > idleFrames
    /\ \E p \in ParamIds : paramTable[p] # Zero

\* The raw signal that a tracked frame on the last result folds into
\* accumulator c, for the accumulators whose raw signal is constant over a
\* run of equal results: the fallback's ten signals, or the solver's head
\* degrees brought into [-30, 30].
TrackedFace == results.multiFaceLandmarks[1]

ConstantChannels ==
    IF SolverAvailable(Kalidokit) THEN {"AngleX", "AngleY", "AngleZ"} ELSE FallbackChannels

ConstantRaw(f, c) ==
    IF SolverAvailable(Kalidokit)
        THEN LET d == Solve(f).head[1].degrees[1] IN
             CASE c = "AngleX" -> Clamp(-30, 30, d.x)
               [] c = "AngleY" -> Clamp(-30, 30, d.y)
               [] c = "AngleZ" -> Clamp(-30, 30, d.z)
        ELSE FallbackRaw(Landmarks(f), c)

\* old + (raw - old) * 0.3, written out
ThreeTenths(old, raw) == Plus(old, Times(Minus(raw, old), <<3, 10>>))

\* C9 (EMA update rule): every accumulator starts at 0; a frame tracked to
\* its end sets each accumulator it smooths to old + (raw - old) * 0.3, the
\* body accumulators of the solver included (their raw value is half the
\* head accumulator just updated); and from 0 the raw sequence 10, 10, 10, 10
\* yields 3.0, 5.1, 6.57, 7.599.
C9_Start == debugFrameCount = 0 => \A c \in Channels : smoothed[c] = Zero

C9_Rule ==
    /\ (Delivered /\ FacePresent(results')) =>
            \A c \in ConstantChannels :
                \/ smoothed'[c] = smoothed[c]
                \/ /\ outcome' \in {"done", "caught"}
                   /\ smoothed'[c] = ThreeTenths(smoothed[c],
                                        ConstantRaw(results'.multiFaceLandmarks[1], c))
    /\ (Delivered /\ outcome' = "done") =>
        /\ \A c \in ConstantChannels :
            smoothed'[c] = ThreeTenths(smoothed[c], ConstantRaw(results'.multiFaceLandmarks[1], c))
        /\ SolverAvailable(Kalidokit) =>
            /\ smoothed'["BodyAngleX"] =
                    ThreeTenths(smoothed["BodyAngleX"], Half(smoothed'["AngleX"]))
            /\ smoothed'["BodyAngleY"] =
                    ThreeTenths(smoothed["BodyAngleY"], Half(smoothed'["AngleY"]))
            /\ smoothed'["BodyAngleZ"] =
                    ThreeTenths(smoothed["BodyAngleZ"], Half(smoothed'["AngleZ"]))

C9_Scenario ==
    (runLen = debugFrameCount /\ runLen \in 1..4 /\ TrackedFace = "ten") =>
        /\ ConstantRaw("ten", "AngleX") = Whole(10)
        /\ smoothed["AngleX"] =
            CASE runLen = 1 -> <<3, 1>>
              [] runLen = 2 -> <<51, 10>>
              [] runLen = 3 -> <<657, 100>>
              [] runLen = 4 -> <<7599, 1000>>

C9_EmaRule == []C9_Start /\ [][C9_Rule]_vars /\ []C9_Scenario

\* Four tracked frames of raw yaw 10 from the start.
C9_Witness ==
    /\ debugFrameCount = 4 /\ runLen = 4
    /\ TrackedFace = "ten"
    /\ smoothed["AngleX"] = <<7599, 1000>>
    /\ smoothed["MouthOpen"] # smoothed["AngleX"]

\* (7/10)^n
RECURSIVE SevenTenthsTo(_)
SevenTenthsTo(n) == IF n = 0 THEN Whole(1) ELSE Times(SevenTenthsTo(n - 1), <<7, 10>>)

Distance(p, q) == MathAbs(Minus(p, q))

\* C10 (convergence without overshoot): after a run of n tracked frames on
\* the same raw value v that started from accumulator a0, the accumulator is
\* v + (a0 - v) * 0.7^n; each tracked frame brings an accumulator that
\* differs from its raw value strictly closer to it and never to its other
\* side.
C10_ClosedForm ==
    runLen > 0 =>
        \A c \in ConstantChannels :
            LET v == ConstantRaw(TrackedFace, c) IN
            smoothed[c] = Plus(v, Times(Minus(runStart[c], v), SevenTenthsTo(runLen)))

C10_Approach ==
    (Delivered /\ outcome' = "done") =>
        \A c \in ConstantChannels :
            LET v == ConstantRaw(results'.multiFaceLandmarks[1], c) IN
            IF smoothed[c] = v THEN smoothed'[c] = v
            ELSE /\ Less(Distance(smoothed'[c], v), Distance(smoothed[c], v))
                 /\ Less(smoothed[c], v) => Less(smoothed'[c], v)
                 /\ Less(v, smoothed[c]) => Less(v, smoothed'[c])

C10_ConvergesNoOvershoot == []C10_ClosedForm /\ [][C10_Approach]_vars

\* A run of three equal tracked frames that started from a nonzero
\* accumulator left by frames on another face.
C10_Witness ==
    /\ runLen >= 3
    /\ runStart["AngleX"] # Zero
    /\ smoothed["AngleX"] # ConstantRaw(TrackedFace, "AngleX")

\* The frame the same callback would make on a puppet that defines every
\* parameter and whose engine never raises.
OnFullPuppet == FrameResult(Kalidokit, "full", smoothed, paramTable, results')

\* C5 (unknown parameter is a no-op): on a puppet that lacks some of the
\* parameters (index < 0) or has no core model, a frame raises nothing for
\* them, leaves the parameters the puppet lacks as they were, and makes
\* every setParameter call of the frame; the parameters the puppet defines
\* get the values they get on a full puppet.
C5_UnknownParamNoOp ==
    [][(Delivered /\ modelRef \in {"partial", "nocore"}) =>
        \E full \in {OnFullPuppet} :
        /\ outcome' = full.outcome
        /\ calls' = full.calls
        /\ smoothed' = full.smoothed
        /\ \A p \in ParamIds :
            paramTable'[p] = IF HasCoreModel(modelRef) /\ p \in DefinedParams(modelRef)
                                THEN full.table[p]
                                ELSE paramTable[p]]_vars

\* A frame on the partial puppet called setParameter for ParamAngleX, which
\* the puppet lacks, and then wrote ParamAngleY.
C5_Witness ==
    /\ modelRef = "partial" /\ outcome = "done"
    /\ \E i \in 1..Len(calls) :
        /\ calls[i][1] = "ParamAngleX" /\ calls[i][2] # Zero
        /\ \E j \in (i + 1)..Len(calls) :
            calls[j][1] = "ParamAngleY" /\ paramTable["ParamAngleY"] = calls[j][2]
    /\ paramTable["ParamAngleX"] = Zero
    /\ paramTable["ParamAngleY"] # Zero

Faulty(m) == LookupFaults(m) \cup WriteFaults(m)

\* C6 (the applier never throws outward): on a puppet whose engine raises
\* in the index lookup of some parameters and in the value write of others,
\* the frame is not aborted, every setParameter call of the frame is made,
\* and every parameter the engine accepts gets the value it gets on a full
\* puppet; the parameters the engine raised for keep their values.
C6_ApplierNeverThrows ==
    [][(Delivered /\ modelRef = "flaky") =>
        \E full \in {OnFullPuppet} :
        /\ outcome' = full.outcome
        /\ calls' = full.calls
        /\ smoothed' = full.smoothed
        /\ \A p \in ParamIds :
            paramTable'[p] = IF p \in Faulty(modelRef) THEN paramTable[p]
                                                       ELSE full.table[p]]_vars

\* A frame on the flaky puppet ran to its end: the engine raised for a
\* call, and a later call of the frame was written.
C6_Witness ==
    /\ modelRef = "flaky" /\ outcome = "done"
    /\ \E i \in 1..Len(calls) :
        /\ calls[i][1] \in Faulty(modelRef)
        /\ paramTable[calls[i][1]] # calls[i][2]
        /\ \E j \in (i + 1)..Len(calls) :
            /\ calls[j][1] \notin Faulty(modelRef)
            /\ calls[j][2] # Zero
            /\ paramTable[calls[j][1]] = calls[j][2]

\* C7 (a raising frame is skipped atomically): a face-present frame in
\* which a step raises leaves every accumulator and every parameter as it
\* was before the frame.
C7_RaisingFrameChangesNothing ==
    [][(Delivered /\ outcome' = "caught") =>
        (smoothed' = smoothed /\ paramTable' = paramTable)]_vars

WellFormed(f) == f \in {"ten", "wide"}

C3_NoCallbackAfterCleanup ==
    [][cleanedUp => (sent' = sent /\ debugFrameCount' = debugFrameCount)]_vars

Released ==
    /\ camera # "started" /\ faceMesh # "open" /\ stream # "live"
    /\ puppets = {} /\ app # "live"
    /\ cameraRef = NULL /\ faceMeshRef = NULL /\ modelRef = NULL /\ appRef = NULL

\* C4 (teardown releases everything): a cleanup that runs once init has
\* come to rest leaves the camera helper stopped, the detector closed, the
\* stream's tracks stopped, the puppet and the application destroyed and
\* the four refs null, whether or not an error was set and the banner
\* rendered before.
C4_TeardownReleasesAll ==
    [][(~cleanedUp /\ cleanedUp' /\ pc \in {"done", "failed"} /\ loading = {}) =>
        Released']_vars

\* The domain of the parameters that have one in every strategy.
InDomain(paramId, value) ==
    CASE paramId \in {"ParamMouthOpenY", "ParamEyeLOpen", "ParamEyeROpen"} ->
            Leq(Zero, value) /\ Leq(value, Whole(1))
      [] paramId \in {"ParamEyeBallX", "ParamEyeBallY"} ->
            Leq(Whole(-1), value) /\ Leq(value, Whole(1))
      [] OTHER -> TRUE

\* C11 (applied values lie in the parameter's domain): on every frame, in
\* either strategy, the values passed to setParameter for ParamMouthOpenY,
\* ParamEyeLOpen and ParamEyeROpen are in [0, 1] and those for
\* ParamEyeBallX and ParamEyeBallY are in [-1, 1].
C11_AppliedValuesInDomain ==
    [][Delivered => \A i \in 1..Len(calls') : InDomain(calls'[i][1], calls'[i][2])]_vars

\* C12 (clamping is a pure saturating function): for each pair of bounds
\* the code clamps to, a value inside the bounds is returned unchanged,
\* clamping the result again changes nothing, x <= y gives
\* clamp(x) <= clamp(y), a value below the bounds yields the lower and a
\* value above them the upper bound, and every result is a number within
\* the bounds.
C12_ClampSaturates ==
    clampOut # None =>
        LET in == clampIn[1]
            out == clampOut[1]
            lo == Whole(in.lo)
            hi == Whole(in.hi)
        IN /\ (Leq(lo, in.x) /\ Leq(in.x, hi)) => out.x = in.x
           /\ out.xx = out.x
           /\ Leq(in.x, in.y) => Leq(out.x, out.y)
           /\ Less(in.x, lo) => out.x = lo
           /\ Less(hi, in.x) => out.x = hi
           /\ Less(in.y, lo) => out.y = lo
           /\ Less(hi, in.y) => out.y = hi
           /\ Leq(lo, out.x) /\ Leq(out.x, hi)

\* The clamp was applied to a value above the upper bound and to a
\* smaller value strictly inside the bounds.
C12_Witness ==
    /\ clampOut # None
    /\ LET in == clampIn[1]
           out == clampOut[1]
       IN /\ Less(Whole(in.hi), in.x) /\ out.x = Whole(in.hi)
          /\ Less(Whole(in.lo), in.y) /\ Less(in.y, Whole(in.hi)) /\ out.y = in.y

\* v brought into [-30, 30]
Saturated30(v) ==
    IF Less(v, Whole(-30)) THEN Whole(-30)
    ELSE IF Less(Whole(30), v) THEN Whole(30) ELSE v

\* C13 (solver head rotation is clamped before smoothing): on a frame the
\* solver strategy tracks, each head-angle accumulator moves 3/10 of the
\* way toward the solver's degree value on its axis brought into
\* [-30, 30]; degrees (45, -10, 5) are folded in as (30, -10, 5), which from
\* accumulators 0 gives (9, -3, 3/2).
C13_HeadClampedBeforeSmoothing ==
    [][(Delivered /\ SolverAvailable(Kalidokit) /\ outcome' = "done") =>
        LET face == results'.multiFaceLandmarks[1]
            d == Solve(face).head[1].degrees[1]
            Fed(old, v) == Plus(old, Times(Minus(Saturated30(v), old), <<3, 10>>))
        IN /\ smoothed'["AngleX"] = Fed(smoothed["AngleX"], d.x)
           /\ smoothed'["AngleY"] = Fed(smoothed["AngleY"], d.y)
           /\ smoothed'["AngleZ"] = Fed(smoothed["AngleZ"], d.z)
           /\ face = "wide" =>
                /\ <<d.x, d.y, d.z>> = <<Whole(45), Whole(-10), Whole(5)>>
                /\ <<Saturated30(d.x), Saturated30(d.y), Saturated30(d.z)>>
                        = <<Whole(30), Whole(-10), Whole(5)>>
                /\ smoothed = SmoothedInit =>
                    <<smoothed'["AngleX"], smoothed'["AngleY"], smoothed'["AngleZ"]>>
                        = <<Whole(9), Whole(-3), <<3, 2>> >>]_vars

\* The first frame of a session, solved to degrees (45, -10, 5), has been
\* tracked.
C13_Witness ==
    /\ SolverAvailable(Kalidokit) /\ debugFrameCount = 1 /\ outcome = "done"
    /\ TrackedFace = "wide"
    /\ <<smoothed["AngleX"], smoothed["AngleY"], smoothed["AngleZ"]>>
            = <<Whole(9), Whole(-3), <<3, 2>> >>

\* A step of the model switch: a selection, or a load settling.
SwitchStep == selections' # selections \/ loading' # loading \/ modelRef' # modelRef

\* C14 (smoother state lifetime): the accumulators are 0 when no callback
\* has run yet, they change only in a callback on a result with a face,
\* and no step of a model switch (selection, destruction of the puppet,
\* load settling) changes them.
C14_AccumulatorLifetime ==
    /\ [](debugFrameCount = 0 => smoothed = SmoothedInit)
    /\ [][smoothed' # smoothed => (Delivered /\ FacePresent(results'))]_vars
    /\ [][SwitchStep => smoothed' = smoothed]_vars

\* A switch to the full puppet has resolved and no frame has been tracked
\* on it yet; the accumulators are those the frames before the switch left.
C14_Witness ==
    /\ selections = 1 /\ loading = {} /\ modelRef = "full"
    /\ paramTable = TableInit
    /\ debugFrameCount >= 1
    /\ smoothed["AngleX"] # Zero

\* init stands behind the solver probe of lines 236-242.
Probed == pc \in {"getUserMedia", "importCamera", "done"}

\* C15 (the strategy is fixed for the session): the solver is probed at one
\* place of init only; once init is past it the probe is not taken again
\* and its outcome does not change; and every frame tracked to its end
\* starts with the first parameter of the strategy the probe selected
\* (ParamAngleX for the solver, ParamBodyAngleX for the fallback).
C15_StrategyFixed ==
    /\ [][Kalidokit' # Kalidokit => (pc = "importKalidokit" /\ pc' = "getUserMedia")]_vars
    /\ [][Probed => (Probed' /\ Kalidokit' = Kalidokit)]_vars
    /\ [][(Delivered /\ outcome' = "done") =>
            /\ Probed
            /\ calls' # <<>>
            /\ calls'[1][1] = IF Kalidokit = "loaded" THEN "ParamAngleX"
                                                      ELSE "ParamBodyAngleX"]_vars

\* The probe failed, and the second frame of the session has been tracked
\* by the fallback.
C15_Witness ==
    /\ Kalidokit = NULL /\ Probed
    /\ debugFrameCount = 2 /\ outcome = "done"
    /\ calls[1][1] = "ParamBodyAngleX"

\* The ways the callback returns to the detector.
NormalReturns == {"skipped", "nointernal", "done", "caught"}

\* C16 (no hot-path failure stops the session): every callback, whatever
\* the result and whether or not a puppet is loaded, returns normally; and
\* the callback after one in which a step raised is processed as usual: on
\* a well-formed face and a ready puppet it is tracked to its end.
C16_CallbackReturnsNormally ==
    /\ [][Delivered => outcome' \in NormalReturns]_vars
    /\ [][(/\ Delivered /\ outcome = "caught"
           /\ FacePresent(results') /\ WellFormed(results'.multiFaceLandmarks[1])
           /\ modelRef # NULL /\ HasInternalModel(modelRef))
            => (outcome' = "done" /\ calls' # <<>>)]_vars

\* With the fallback, a first frame raised after the yaw accumulator was
\* updated and before the roll accumulator was, and a second frame was then
\* tracked to its end.
C16_Witness ==
    /\ Kalidokit = NULL /\ debugFrameCount = 2 /\ outcome = "done"
    /\ smoothed["AngleX"] = <<51, 10>>
    /\ smoothed["AngleZ"] = <<3, 1>>

\* The three failures of the setup: no engine core, no detector
\* constructor, no camera.
SetupFailed == error \in {"core", "init", "camera"}

\* C17 (initialisation failures are fatal and not retried): a missing
\* engine core, a detector constructor that cannot be found and a refused
\* camera each set the error message; from then on the message stays, the
\* setup takes no further step (the failed step is not attempted again), no
\* camera helper is started, no frame is submitted to the detector and no
\* parameter is applied.
C17_SetupFailuresFatal ==
    /\ [](pc = "nocore" => error = "core")
    /\ [][(pc = "importFaceMesh" /\ pc' # pc /\ faceMesh' # "open") => error' = "init"]_vars
    /\ [][(pc = "getUserMedia" /\ pc' # pc /\ stream' # "live") => error' = "camera"]_vars
    /\ [][SetupFailed =>
            /\ error' = error /\ pc' = pc
            /\ camera' # "started"
            /\ sent' = sent /\ pending' = pending
            /\ debugFrameCount' = debugFrameCount /\ calls' = calls]_vars
    /\ [](SetupFailed => (sent = 0 /\ debugFrameCount = 0 /\ calls = <<>>))

\* The camera was refused with a puppet loaded and the detector open; the
\* banner has since replaced the canvas, and no frame was submitted or
\* tracked.
C17_Witness ==
    /\ error = "camera" /\ stream = "none" /\ pc = "done"
    /\ modelRef = "full" /\ faceMesh = "open"
    /\ ~videoAttached /\ resizeListener
    /\ sent = 0 /\ debugFrameCount = 0

\* A measurement with a parent element whose width and height are both
\* positive.
Positive(measured) == measured # None /\ measured[1][1] > 0 /\ measured[1][2] > 0

\* C18 (the size wait is a bounded retry with a fallback): in both viewers
\* the wait makes at most 100 checks; a check that measures a positive
\* width and height resolves with that measurement and any other check
\* before the 100th leaves the wait pending, so the wait resolves at the
\* first positive measurement; the 100th check resolves with 800x600 when
\* its measurement is not positive; once resolved no further check is made
\* and the size stays; the resolved size has no zero dimension; and the
\* wait always resolves.
C18_SizeWaitBounded ==
    /\ [](attempts <= 100)
    /\ [](attempts = 100 => sizeResolved # None)
    /\ []((sizeResolved = None /\ attempts > 0) => ~Positive(parent))
    /\ [](sizeResolved # None =>
            /\ sizeResolved[1][1] > 0 /\ sizeResolved[1][2] > 0
            /\ IF Positive(parent) THEN sizeResolved = parent
                                   ELSE attempts = 100 /\ sizeResolved = Some(<<800, 600>>))
    /\ [][attempts' = attempts + 1]_<<attempts, sizeResolved, parent>>
    /\ [][sizeResolved = None]_<<attempts, sizeResolved, parent>>
    /\ <>(sizeResolved # None)

\* The display viewer's wait measured nothing positive for 99 checks, a
\* zero height at the 100th, and resolved with the default.
C18_Witness ==
    /\ sizeViewer = "display" /\ attempts = 100
    /\ parent = Some(<<640, 0>>)
    /\ sizeResolved = Some(<<800, 600>>)

\* The accumulator of lines 252-256 behind each expression parameter, and
\* the clamp the fallback puts on it (lines 432-436).
AccumulatorOf ==
    [p \in {"ParamMouthOpenY", "ParamEyeLOpen", "ParamEyeROpen",
            "ParamEyeBallX", "ParamEyeBallY"} |->
        CASE p = "ParamMouthOpenY" -> "MouthOpen"
          [] p = "ParamEyeLOpen" -> "LeftEyeOpen"
          [] p = "ParamEyeROpen" -> "RightEyeOpen"
          [] p = "ParamEyeBallX" -> "EyeX"
          [] p = "ParamEyeBallY" -> "EyeY"]

ClampedAccumulator(p, acc) ==
    IF p \in {"ParamEyeBallX", "ParamEyeBallY"} THEN Clamp(-1, 1, acc[AccumulatorOf[p]])
                                                ELSE Clamp(0, 1, acc[AccumulatorOf[p]])

\* C19 (every applied channel goes through the smoother): on each
\* face-present frame, in either strategy, the value written for eye
\* openness, gaze and mouth openness is the channel's accumulator after
\* this frame's update, clamped, never the raw value of the frame.
C19_EveryChannelSmoothed ==
    [][(Delivered /\ FacePresent(results')) =>
        \A i \in 1..Len(calls') :
            calls'[i][1] \in DOMAIN AccumulatorOf =>
                calls'[i][2] = ClampedAccumulator(calls'[i][1], smoothed')]_vars

\* The solver's output for the face of the latest frame (line 306).
riggedFace == Solve(results.multiFaceLandmarks[1])

\* The values written for the parameter p on the latest frame.
Written(p) == {calls[i][2] : i \in {j \in 1..Len(calls) : calls[j][1] = p}}

\* What the solver branch is to write for p: nothing when the channel is
\* absent, else the channel's value.
Solved(channel, field) == IF channel = None THEN {} ELSE {channel[1][field]}

SolvedMouthForm ==
    IF riggedFace.mouth = None \/ riggedFace.mouth[1].x = None THEN {}
    ELSE {riggedFace.mouth[1].x[1]}

PassThrough ==
    /\ Written("ParamEyeLOpen") = Solved(riggedFace.eye, "l")
    /\ Written("ParamEyeROpen") = Solved(riggedFace.eye, "r")
    /\ Written("ParamEyeBallX") = Solved(riggedFace.pupil, "x")
    /\ Written("ParamEyeBallY") = Solved(riggedFace.pupil, "y")
    /\ Written("ParamMouthOpenY") = Solved(riggedFace.mouth, "y")
    /\ Written("ParamBrowLY") = Solved(riggedFace.brow, "l")
    /\ Written("ParamBrowRY") = Solved(riggedFace.brow, "r")
    /\ Written("ParamMouthForm") = SolvedMouthForm

\* C20 (solver pass-through channels): on a frame the solver strategy
\* tracked to its end, the values written to ParamEyeLOpen, ParamEyeROpen,
\* ParamEyeBallX, ParamEyeBallY, ParamMouthOpenY, ParamBrowLY and
\* ParamBrowRY are exactly the solver's eye, pupil, vertical-mouth and brow
\* outputs for that frame, and ParamMouthForm is written, with the solver's
\* horizontal mouth value, exactly when that value is defined.
C20_SolverPassThrough ==
    (Kalidokit = "loaded" /\ outcome = "done" /\ FacePresent(results)
        /\ ~riggedFace.isNull)
      => PassThrough

\* The solver gave a pupil outside [-1, 1] and no horizontal mouth value:
\* the pupil was written as solved and ParamMouthForm was not written.
C20_Witness ==
    /\ Kalidokit = "loaded" /\ outcome = "done" /\ FacePresent(results)
    /\ results.multiFaceLandmarks[1] = "wide"
    /\ Written("ParamEyeBallX") = {Num(3, 2)}
    /\ Written("ParamMouthOpenY") = {Whole(1)}
    /\ Written("ParamMouthForm") = {}

\* The head and body accumulators, axis by axis.
Axes == {<<"AngleX", "BodyAngleX", "x">>, <<"AngleY", "BodyAngleY", "y">>,
         <<"AngleZ", "BodyAngleZ", "z">>}

\* A frame the solver strategy tracked to its end.
SolverFrame == Delivered /\ SolverAvailable(Kalidokit) /\ outcome' = "done"

\* old moved 3/10 of the way toward raw
Toward(old, raw) == Plus(old, Times(Minus(raw, old), <<3, 10>>))

\* C21 (body rotation input is half the pre-smoothing head rotation): on a
\* frame the solver strategy tracks, each body-angle accumulator moves 3/10
\* of the way toward half the degree value the solver returned on that
\* axis, taken before the clamp and before the head accumulator.
C21_BodyFromSolvedDegrees ==
    [][SolverFrame =>
        LET d == Solve(results'.multiFaceLandmarks[1]).head[1].degrees[1]
        IN \A a \in Axes :
            smoothed'[a[2]] = Toward(smoothed[a[2]], Times(d[a[3]], <<1, 2>>))]_vars

\* C22 (body rotation is double-damped): on a frame the solver strategy
\* tracks, the head accumulator of each axis is updated first and the body
\* accumulator of that axis then moves 3/10 of the way toward half the
\* updated head accumulator; the body value written is that accumulator;
\* and on every frame of a run of equal frames begun with the accumulators
\* at 0, a head accumulator that has moved is more than twice as far from 0
\* as its body accumulator, on the same side.
C22_BodyDoubleDamped ==
    /\ [][SolverFrame =>
            \A a \in Axes :
                /\ smoothed'[a[2]] = Toward(smoothed[a[2]], Times(smoothed'[a[1]], <<1, 2>>))
                /\ \E i \in 1..Len(calls') :
                    calls'[i] = <<"Param" \o a[2], smoothed'[a[2]]>>]_vars
    /\ []((SolverAvailable(Kalidokit) /\ runLen > 0 /\ runStart = SmoothedInit) =>
            \A a \in Axes :
                smoothed[a[1]] # Zero =>
                    /\ Less(Times(MathAbs(smoothed[a[2]]), Whole(2)), MathAbs(smoothed[a[1]]))
                    /\ Less(Zero, smoothed[a[1]]) <=> Less(Zero, smoothed[a[2]]))

\* Three frames solved to degrees (10, 10, 10) from accumulators 0: the
\* head yaw accumulator is at 6.57 and the body yaw accumulator at 1.7415.
C22_Witness ==
    /\ SolverAvailable(Kalidokit) /\ runLen = 3 /\ runStart = SmoothedInit
    /\ results.multiFaceLandmarks = <<"ten">>
    /\ smoothed["AngleX"] = Num(657, 100)
    /\ smoothed["BodyAngleX"] = Num(3483, 2000)

\* C23 (solver-path head angles never leave +-30): with the solver
\* strategy, from accumulators at 0 and after any sequence of frames, the
\* three head-angle accumulators and every value written to ParamAngleX,
\* ParamAngleY and ParamAngleZ lie in [-30, 30].
C23_SolverHeadWithin30 ==
    SolverAvailable(Kalidokit) =>
        /\ \A a \in Axes :
            Leq(Whole(-30), smoothed[a[1]]) /\ Leq(smoothed[a[1]], Whole(30))
        /\ \A i \in 1..Len(calls) :
            calls[i][1] \in {"ParamAngleX", "ParamAngleY", "ParamAngleZ"} =>
                Leq(Whole(-30), calls[i][2]) /\ Leq(calls[i][2], Whole(30))

\* Four frames solved to a yaw of 45 degrees from accumulators 0: the yaw
\* accumulator, fed 30 each time, is at 22.797, where an unclamped input
\* would have taken it past 30.
C23_Witness ==
    /\ SolverAvailable(Kalidokit) /\ runLen = 4 /\ runStart = SmoothedInit
    /\ results.multiFaceLandmarks = <<"wide">>
    /\ smoothed["AngleX"] = Num(22797, 1000)
    /\ calls[1] = <<"ParamAngleX", Num(22797, 1000)>>

\* A frame the fallback strategy tracked to its end.
FallbackFrame == Delivered /\ ~SolverAvailable(Kalidokit) /\ outcome' = "done"

\* v brought into [lo, hi]
Saturated(lo, hi, v) ==
    IF Less(v, Whole(lo)) THEN Whole(lo)
    ELSE IF Less(Whole(hi), v) THEN Whole(hi) ELSE v

\* The parameters of the fallback's rotation channels with their
\* accumulators and bounds.
FallbackRotation ==
    {<<"ParamAngleX", "AngleX", -70, 70>>, <<"ParamAngleY", "AngleY", -70, 70>>,
     <<"ParamAngleZ", "AngleZ", -50, 50>>, <<"ParamBodyAngleX", "HeadX", -30, 30>>}

\* C24 (fallback output clamps): on every frame the fallback tracks, the
\* value written to ParamAngleX and ParamAngleY is the accumulator after
\* this frame's update brought into [-70, 70], to ParamAngleZ into
\* [-50, 50] and to ParamBodyAngleX into [-30, 30]; the accumulator itself
\* is not saturated: it moves 3/10 of the way from its own previous value,
\* in or out of the domain, toward the raw signal.
C24_FallbackOutputClamps ==
    [][FallbackFrame =>
        \A r \in FallbackRotation :
            /\ Written(r[1])' = {Saturated(r[3], r[4], smoothed'[r[2]])}
            /\ smoothed'[r[2]] =
                Toward(smoothed[r[2]],
                       FallbackRaw(Landmarks(results'.multiFaceLandmarks[1]), r[2]))]_vars

\* Two equal frames with raw yaw -200 and raw roll -200: the yaw
\* accumulator holds -102 and the roll accumulator -102, outside their
\* domains, while -70 and -50 were written.
C24_Witness ==
    /\ ~SolverAvailable(Kalidokit) /\ outcome = "done" /\ runLen = 2
    /\ smoothed["AngleX"] = Whole(-102)
    /\ smoothed["AngleZ"] = Whole(-102)
    /\ Written("ParamAngleX") = {Whole(-70)}
    /\ Written("ParamAngleZ") = {Whole(-50)}

\* The parameters the fallback writes and those it leaves alone.
FallbackWritten ==
    {"ParamBodyAngleX", "ParamAngleX", "ParamAngleY", "ParamAngleZ", "ParamMouthOpenY",
     "ParamEyeLOpen", "ParamEyeROpen", "ParamEyeBallX", "ParamEyeBallY"}
FallbackUnwritten ==
    {"ParamMouthForm", "ParamBrowLY", "ParamBrowRY", "ParamBodyAngleY", "ParamBodyAngleZ"}

\* C25 (fallback channel set): a frame the fallback tracks writes each of
\* the nine parameters ParamBodyAngleX, ParamAngleX, ParamAngleY,
\* ParamAngleZ, ParamMouthOpenY, ParamEyeLOpen, ParamEyeROpen, ParamEyeBallX
\* and ParamEyeBallY once and nothing else; no frame of the fallback writes
\* ParamMouthForm, ParamBrowLY, ParamBrowRY, ParamBodyAngleY or
\* ParamBodyAngleZ, whose pose values stay as they were; ParamBodyAngleX
\* carries the horizontal head position, and the vertical head position is
\* folded into its accumulator without being written.
C25_FallbackChannelSet ==
    /\ [][FallbackFrame =>
            /\ Len(calls') = 9
            /\ {calls'[i][1] : i \in 1..Len(calls')} = FallbackWritten
            /\ Written("ParamBodyAngleX")' = {Saturated(-30, 30, smoothed'["HeadX"])}
            /\ smoothed'["HeadY"] =
                Toward(smoothed["HeadY"],
                       headPosY(Landmarks(results'.multiFaceLandmarks[1])))]_vars
    /\ [][(Delivered /\ ~SolverAvailable(Kalidokit)) =>
            \A p \in FallbackUnwritten :
                Written(p)' = {} /\ paramTable'[p] = paramTable[p]]_vars

\* One frame with the face centre at (1, 0) on the full puppet: the
\* vertical accumulator moved to -15 and ParamBodyAngleY is still 0, while
\* ParamBodyAngleX took the horizontal 15.
C25_Witness ==
    /\ ~SolverAvailable(Kalidokit) /\ outcome = "done" /\ modelRef = "full"
    /\ debugFrameCount = 1
    /\ smoothed["HeadY"] = Whole(-15)
    /\ paramTable["ParamBodyAngleY"] = Zero
    /\ paramTable["ParamBodyAngleX"] = Whole(15)
    /\ Len(calls) = 9

\* (a - b) * k and |a - b| * k
Delta(a, b, k) == Times(Minus(a, b), Whole(k))
Gap(a, b, k) == Times(IF Less(a, b) THEN Minus(b, a) ELSE Minus(a, b), Whole(k))

\* C26 (fallback raw signals follow the stated formulas): with faceCenter
\* the midpoint of landmarks 33 and 263, yaw is (nose.x - faceCenter.x) *
\* 200, pitch (nose.y - faceCenter.y) * 200, roll (lm[234].y - lm[454].y) *
\* 200, gaze x and y the nose deltas * 150, head position (faceCenter -
\* 0.5) * 100, mouth |lm[13].y - lm[14].y| * 40 and each eye |top.y -
\* bottom.y| * 30 on landmarks 159/145 and 386/374; upperLip.y = 0.40 and
\* lowerLip.y = 0.42 give a raw mouth openness of 0.8, which is inside
\* [0, 1].
C26_FallbackRawFormulas ==
    rawOut # None =>
        LET lm == rawIn[1].point
            out == rawOut[1]
            centerX == Times(Plus(lm[33].x, lm[263].x), <<1, 2>>)
            centerY == Times(Plus(lm[33].y, lm[263].y), <<1, 2>>)
        IN /\ out["AngleX"] = Delta(lm[1].x, centerX, 200)
           /\ out["AngleY"] = Delta(lm[1].y, centerY, 200)
           /\ out["AngleZ"] = Delta(lm[234].y, lm[454].y, 200)
           /\ out["EyeX"] = Delta(lm[1].x, centerX, 150)
           /\ out["EyeY"] = Delta(lm[1].y, centerY, 150)
           /\ out["HeadX"] = Delta(centerX, <<1, 2>>, 100)
           /\ out["HeadY"] = Delta(centerY, <<1, 2>>, 100)
           /\ out["MouthOpen"] = Gap(lm[13].y, lm[14].y, 40)
           /\ out["LeftEyeOpen"] = Gap(lm[159].y, lm[145].y, 30)
           /\ out["RightEyeOpen"] = Gap(lm[386].y, lm[374].y, 30)
           /\ (lm[13].y = <<2, 5>> /\ lm[14].y = <<21, 50>>) =>
                /\ out["MouthOpen"] = <<4, 5>>
                /\ Saturated(0, 1, out["MouthOpen"]) = <<4, 5>>

\* Lips at 0.40 and 0.42 gave 0.8, with the nose at x = 0 and the eye
\* corners at x = 0.45 and 1: a yaw of -145 and a horizontal gaze of
\* -108.75.
C26_Witness ==
    /\ rawOut # None
    /\ rawIn[1].point[13].y = <<2, 5>> /\ rawIn[1].point[14].y = <<21, 50>>
    /\ rawIn[1].point[1].x = Zero
    /\ rawIn[1].point[33].x = <<9, 20>> /\ rawIn[1].point[263].x = <<1, 1>>
    /\ rawOut[1]["MouthOpen"] = <<4, 5>>
    /\ rawOut[1]["AngleX"] = <<-145, 1>>
    /\ rawOut[1]["EyeX"] = <<-435, 4>>

\* The setup has ended with the stream on the video element, no camera
\* helper constructed and no error reported: the constructor was not found
\* (lines 470-471).
HelperMissing ==
    /\ pc = "done" /\ stream = "live" /\ camera = "none"
    /\ error = NULL /\ ~cleanedUp

\* C27 (frames keep flowing without the camera helper): once the stream
\* has been acquired and the camera constructor was not found, a frame is
\* eventually submitted to the detector and a callback on its result runs,
\* unless the viewer is cleaned up first.
C27_FramesWithoutHelper ==
    HelperMissing ~> ((sent > 0 /\ debugFrameCount > 0) \/ cleanedUp)

\* The result that lists only the face f.
OnlyFace(f) == [hasLandmarks |-> TRUE, multiFaceLandmarks |-> <<f>>]

\* C28 (only the first face is consumed): whatever the accumulators, the
\* pose and the puppet, a callback on a result that lists several faces
\* leaves the accumulators, the pose, the parameter writes and the way the
\* callback ends exactly as a callback on the first face alone would: two
\* results that agree on the first face lead to the same state.
C28_OnlyFirstFace ==
    /\ [](\A res \in ManyFaceResults :
            \E alone \in {FrameResult(Kalidokit, modelRef, smoothed, paramTable,
                                      OnlyFace(res.multiFaceLandmarks[1]))} :
                FrameResult(Kalidokit, modelRef, smoothed, paramTable, res) = alone)
    /\ [][Delivered =>
            \E alone \in {FrameResult(Kalidokit, modelRef, smoothed, paramTable,
                                      OnlyFace(results'.multiFaceLandmarks[1]))} :
                <<smoothed', paramTable', calls', outcome'>>
                    = <<alone.smoothed, alone.table, alone.calls, alone.outcome>>]_vars

\* A first frame listing the face with yaw 10 before the face with yaw
\* -200 (45 for the solver) was tracked on the full puppet: the yaw
\* accumulator is at 3, as for the first face alone.
C28_Witness ==
    /\ results.multiFaceLandmarks = <<"ten", "wide">>
    /\ debugFrameCount = 1 /\ outcome = "done" /\ modelRef = "full"
    /\ smoothed["AngleX"] = Whole(3)
    /\ paramTable["ParamAngleX"] = Whole(3)

\* C29 (model switch converges to the last selection): after any
\* selections, once every load they started has settled and the path
\* selected last is one that loads, the model ref holds the model of that
\* path and it is the only model attached to the stage.
C29_SwitchConverges ==
    (selections > 0 /\ loading = {} /\ selectedModelPath \in Models) =>
        (modelRef = selectedModelPath /\ puppets = {selectedModelPath})

\* Initialisations that are past their guard and have not yet constructed
\* their application.
Initialising == {i \in 1..Len(runs) : runs[i] = "waitSize"}

\* C30 (at most one initialisation per mounted viewer): in both viewers a
\* run of the setup effect that follows a run which has started initialising
\* starts no second initialisation, also when the earlier run has not yet
\* stored its application in appRef, and the canvas never carries two
\* rendering applications.
C30_SingleInitialisation ==
    Cardinality(Initialising) <= 1 /\ canvasApps <= 1

\* The parameters of the head and body rotation.
RotationParams ==
    {"ParamAngleX", "ParamAngleY", "ParamAngleZ",
     "ParamBodyAngleX", "ParamBodyAngleY", "ParamBodyAngleZ"}

\* A callback of the solver strategy on a face, with a puppet to write to.
SolverCallback ==
    /\ Delivered /\ SolverAvailable(Kalidokit) /\ FacePresent(results')
    /\ modelRef # NULL /\ HasInternalModel(modelRef)

\* C32 (solver result gaps): in the solver strategy, a face-present frame
\* the solver returns no result for changes no accumulator and writes no
\* parameter; a frame whose result lacks the head channel leaves the six
\* head and body accumulators unchanged and writes none of ParamAngleX/Y/Z
\* and ParamBodyAngleX/Y/Z, while the channels present are written as
\* solved; in neither case are the fallback's formulas used (no
\* accumulator moves at all).
C32_SolverGaps ==
    [][SolverCallback =>
        /\ riggedFace'.isNull =>
              smoothed' = smoothed /\ calls' = <<>> /\ paramTable' = paramTable
        /\ (~riggedFace'.isNull /\ ~riggedFace'.threw /\ riggedFace'.head = None) =>
              /\ smoothed' = smoothed
              /\ \A i \in 1..Len(calls') : calls'[i][1] \notin RotationParams
              /\ outcome' = "done"
              /\ PassThrough']_vars

\* After a frame solved to 10 degrees on every axis, a frame without the
\* head channel: the head accumulators are still at 3 and the body's at
\* 0.45, the eye, pupil and mouth values of the second frame were written
\* and the head parameters keep the first frame's values.
C32_Witness ==
    /\ SolverAvailable(Kalidokit) /\ modelRef = "full" /\ debugFrameCount = 2
    /\ results.multiFaceLandmarks = <<"headless">>
    /\ smoothed["AngleX"] = Whole(3) /\ smoothed["BodyAngleX"] = Num(9, 20)
    /\ calls[1] = <<"ParamEyeLOpen", Num(1, 5)>>
    /\ Written("ParamMouthForm") = {Num(-1, 5)}
    /\ paramTable["ParamAngleX"] = Whole(3)
    /\ paramTable["ParamEyeBallX"] = Num(-1, 2)

\* The body accumulators and the values written to the body parameters lie
\* in [-15, 15].
C33_Within15 ==
    SolverAvailable(Kalidokit) =>
        /\ \A a \in Axes :
            Leq(Whole(-15), smoothed[a[2]]) /\ Leq(smoothed[a[2]], Whole(15))
        /\ \A i \in 1..Len(calls) :
            calls[i][1] \in {"ParamBodyAngleX", "ParamBodyAngleY", "ParamBodyAngleZ"} =>
                Leq(Whole(-15), calls[i][2]) /\ Leq(calls[i][2], Whole(15))

\* A callback moves no body accumulator further from 0 than the larger of
\* where it was and half the head accumulator it follows.
C33_NoFurther ==
    (Delivered /\ SolverAvailable(Kalidokit)) =>
        \A a \in Axes :
            Leq(MathAbs(smoothed'[a[2]]),
                MathMax(MathAbs(smoothed[a[2]]), Half(MathAbs(smoothed'[a[1]]))))

\* C33 (solver-path body angles within half the head range): with the
\* solver strategy, from accumulators at 0 and after any sequence of
\* frames, every body-rotation accumulator and every value written to
\* ParamBodyAngleX, ParamBodyAngleY and ParamBodyAngleZ lies in [-15, 15];
\* frame by frame, a body accumulator ends no further from 0 than the
\* larger of its old value and half the head accumulator of its axis.
C33_BodyWithin15 == []C33_Within15 /\ [][C33_NoFurther]_vars

\* Four frames solved to a yaw of 45 degrees from accumulators 0: the head
\* accumulator is at 22.797 and the body's, written unclamped, at 7.0767.
C33_Witness ==
    /\ SolverAvailable(Kalidokit) /\ runLen = 4 /\ runStart = SmoothedInit
    /\ results.multiFaceLandmarks = <<"wide">>
    /\ modelRef = "full"
    /\ smoothed["BodyAngleX"] = Num(70767, 10000)
    /\ paramTable["ParamBodyAngleX"] = Num(70767, 10000)
    /\ Written("ParamBodyAngleX") = {Num(70767, 10000)}

\* C31 (nothing left behind by an initialisation that outlives cleanup):
\* once the cleanup has run, the application ref and the model ref stay
\* null, no model is attached to a stage and no resize listener of the
\* viewer is registered, in every interleaving of the cleanup with init.
C31_NothingLeftBehind ==
    cleanedUp =>
        /\ appRef = NULL /\ modelRef = NULL
        /\ puppets = {}
        /\ ~resizeListener

\* The names of a path, first to last.
RECURSIVE Segments(_)
Segments(p) ==
    IF p = <<>> THEN <<>>
    ELSE LET rest == Tail(p)
             stops == {i \in 1..Len(rest) : rest[i] = Slash}
             len == IF stops = {} THEN Len(rest)
                    ELSE (CHOOSE i \in stops : \A j \in stops : i <= j) - 1
         IN <<SubSeq(rest, 1, len)>> \o Segments(SubSeq(rest, len + 1, Len(rest)))

\* The names of a path from public on.
FromPublic(p) == SubSeq(Segments(p), Len(Segments(publicDir)) + 1, Len(Segments(p)))

\* The files under public/live2dModel, at any depth, whose name ends in
\* .model3.json.
ModelFiles ==
    {p \in DOMAIN disk :
        /\ disk[p] = "file"
        /\ FromPublic(p)[1] = <<"live2dModel">> /\ Len(FromPublic(p)) > 1
        /\ LET name == FromPublic(p)[Len(FromPublic(p))]
           IN Len(name) >= 2 /\ name[Len(name) - 1] = ".model3" /\ name[Len(name)] = ".json"}

RECURSIVE Slashed(_)
Slashed(names) ==
    IF names = <<>> THEN <<>> ELSE <<Slash>> \o Head(names) \o Slashed(Tail(names))

\* The catalog entry the file at p is to have.
EntryOf(p) ==
    LET names == FromPublic(p)
        folder == names[Len(names) - 1]
    IN [label |-> IF folder = <<"runtime">> THEN names[Len(names) - 2] ELSE folder,
        path |-> Slashed(names)]

\* The scan meets something it raises on: the models directory is no
\* directory, or an entry under it cannot be stat'ed.
ScanRaises ==
    /\ existsSync(modelsDir)
    /\ \/ disk[modelsDir] # "dir"
       \/ \E p \in DOMAIN disk : disk[p] = "broken" /\ FromPublic(p)[1] = <<"live2dModel">>

====
